---- MODULE Spec2Model ----
(***************************************************************************)
(* Data pipeline monitoring: the orchestrator's tools (platform monitoring, *)
(* overall health assessment, health notification) and the platform status *)
(* mappers, modelled from src/agents/orchestrator_agent.py,                 *)
(* src/agents/airbyte_agent.py and src/models/platform_models.py.           *)
(*                                                                         *)
(* A Python dict is a TLA+ record holding exactly the keys present; d.get  *)
(* is Get.  A value that may be a dict or a str is wrapped as              *)
(* [type |-> "dict", val |-> d] or [type |-> "str"].                       *)
(***************************************************************************)
EXTENDS Integers, Sequences, FiniteSets, Bags, TLC

VARIABLES
    platform_results,   \* the list handed to assess_overall_system_health
    last_collector,     \* outcome of the collector call behind the newest entry
    assessment,         \* what assess_overall_system_health returned last
    assess_calls,       \* calls of assess_overall_system_health on this list
    notify_input,       \* overall_assessment of the last send_health_notifications
    notification,       \* what send_health_notifications returned last
    email_context,      \* monitoring context the email agent was run with
    raw_status,         \* raw platform status handed to a status mapper
    mapped_status,      \* what the status mapper returned (or that it raised)
    analyzed_jobs,      \* job records handed to analyze_job_patterns
    jobs_analysis,      \* what analyze_job_patterns returned last
    summary_input,      \* <<jobs_analysis, connections_health>> of the last summary
    health_summary,     \* what create_platform_health_summary returned last
    health_model,       \* the last PlatformHealthSummary object constructed
    email_call,         \* arguments of the last generate_monitoring_notification
    email_response,     \* what generate_monitoring_notification returned last
    transport_calls,    \* what that call asked of the email transport
    raw_items,          \* platform and raw items of the last normalizer call
    normalized,         \* what that normalizer returned (or that it raised)
    stored,             \* input, answer and records of the last persistence intake
    db_rows,            \* the rows of JOB_STATUS_RECORDS, a bag
    db_call,            \* records and outcome of the last insert_job_status_records
    primary_key,        \* what the database has shown of its primary key so far
    storage_results,    \* the two results handed to create_storage_summary
    storage_summary,    \* what create_storage_summary returned
    storage_outcome,    \* what the storage tools answered, and store_monitoring_results
    cycle,              \* what happened in a monitoring cycle, and what it returned
    wire,               \* a record, its wire dict, and the record parsed back
    airbyte_client,     \* arguments and outcome of the last AirbyteAPIClient(...)
    request,            \* the _make_request call in progress, or its end
    token_client,       \* token fields of an Outlook or Power Automate client
    token_call          \* the clock and the last _get_access_token call

vars == <<platform_results, last_collector, assessment, assess_calls,
          notify_input, notification, email_context, raw_status, mapped_status,
          analyzed_jobs, jobs_analysis, summary_input, health_summary, health_model,
          email_call, email_response, transport_calls,
          raw_items, normalized, stored,
          db_rows, db_call, primary_key, storage_results, storage_summary,
          storage_outcome, cycle, wire,
          airbyte_client, request, token_client, token_call>>

orchestratorVars == <<platform_results, last_collector, assessment, assess_calls,
                      notify_input, notification, email_context>>

mapperVars == <<raw_status, mapped_status>>

summaryVars == <<analyzed_jobs, jobs_analysis, summary_input, health_summary, health_model>>

emailVars == <<email_call, email_response, transport_calls>>

normalizerVars == <<raw_items, normalized, stored>>

storeVars == <<db_rows, db_call, primary_key>>

cycleVars == <<storage_outcome, cycle>>

persistenceVars == <<storeVars, storage_results, storage_summary, cycleVars, wire>>

clientVars == <<airbyte_client, request, token_client, token_call>>

nonOrchestratorVars ==
    <<mapperVars, summaryVars, emailVars, normalizerVars, persistenceVars, clientVars>>

nonMapperVars ==
    <<orchestratorVars, summaryVars, emailVars, normalizerVars, persistenceVars, clientVars>>

nonSummaryVars ==
    <<orchestratorVars, mapperVars, emailVars, normalizerVars, persistenceVars, clientVars>>

nonEmailVars ==
    <<orchestratorVars, mapperVars, summaryVars, normalizerVars, persistenceVars, clientVars>>

nonNormalizerVars ==
    <<orchestratorVars, mapperVars, summaryVars, emailVars, persistenceVars, clientVars>>

nonPersistenceVars ==
    <<orchestratorVars, mapperVars, summaryVars, emailVars, normalizerVars, clientVars>>

nonClientVars ==
    <<orchestratorVars, mapperVars, summaryVars, emailVars, normalizerVars, persistenceVars>>

----------------------------------------------------------------------------
(* Bounds of the model *)

MaxPlatforms == 2

\* most succeeded, failed and running records in one batch of job records
MaxSucceeded == 20

MaxFailed == 6

MaxRunning == 1

\* largest field value a PlatformHealthSummary object is constructed with
MaxFieldValue == 2

\* most raw items in one batch handed to a normalizer
MaxBatch == 2

\* most rows the table of job records holds
MaxRows == 3

----------------------------------------------------------------------------
(* Python helpers *)

\* dict.get(key, default)
Get(d, k, default) == IF k \in DOMAIN d THEN d[k] ELSE default

SeqToSet(s) == {s[i] : i \in 1..Len(s)}

\* list(set(xs)): the distinct elements, in an order the caller may not rely on
RECURSIVE SetToList(_)
SetToList(S) ==
    IF S = {} THEN <<>>
    ELSE LET x == CHOOSE y \in S : TRUE
         IN  <<x>> \o SetToList(S \ {x})


\* the list as collected, repeated entries kept
ListAsCollected(xs) == xs

ListOfSet(xs) == SetToList(SeqToSet(xs))

\* str.title() on the platform names that occur
Title(name) ==
    CASE name = "airbyte" -> "Airbyte"
      [] name = "databricks" -> "Databricks"
      [] name = "power_automate" -> "Power_Automate"
      [] name = "snowflake_task" -> "Snowflake_Task"
      [] name = "unknown" -> "Unknown"
      [] OTHER -> name

----------------------------------------------------------------------------
(* Thresholds of assess_overall_system_health *)

CriticalFailedPlatforms == 1

CriticalFailedJobs == 15

HighFailedPlatforms == 1

HighFailedJobs == 8

MediumFailedJobs == 3

MediumSuccessRate == 90

GoodSuccessRate == 98

NotifyFailedJobs == 5

PlatformFailedJobs == 5

----------------------------------------------------------------------------
(* Issue strings.  An issue is the record of the parts its text is formatted *)
(* from, so that two issues are equal exactly when their texts are.         *)

TextIssue(t) == [kind |-> "text", who |-> "", n |-> 0, text |-> t]

\* f"{platform_name.title()} has {platform_failed} failed jobs"
FailedJobsIssue(platform_name, platform_failed) ==
    [kind |-> "has_failed_jobs", who |-> Title(platform_name),
     n |-> platform_failed, text |-> ""]

\* f"{platform_name.title()} monitoring failed: {error}"
MonitoringFailedIssue(platform_name, error) ==
    [kind |-> "monitoring_failed", who |-> Title(platform_name),
     n |-> 0, text |-> error]

----------------------------------------------------------------------------
(* assess_overall_system_health *)

DictData(d) == [type |-> "dict", val |-> d]

StrData == [type |-> "str"]

IsDict(md) == md.type = "dict"


\* counters that live on from the call before instead of starting at zero
CountersOfLastCall ==
    [total_jobs |-> Get(assessment, "jobs_analyzed", 0),
     failed_jobs |-> Get(assessment, "failed_jobs_count", 0),
     successful_platforms |-> Get(assessment, "successful_platforms", 0),
     failed_platforms |-> Get(assessment, "failed_platforms", 0),
     critical_issues |-> Get(assessment, "critical_issues", <<>>),
     all_recommendations |-> Get(assessment, "recommendations", <<>>)]

InitialCounters ==
    [total_jobs |-> 0, failed_jobs |-> 0,
     successful_platforms |-> 0, failed_platforms |-> 0,
     critical_issues |-> <<>>, all_recommendations |-> <<>>]

\* the part of the loop body run for a successful platform whose data is a dict
CollectSummary(platform_name, md, acc) ==
    LET platform_jobs == Get(md, "total_jobs", 0)
        platform_failed == Get(md, "failed_jobs", 0)
        issues == Get(md, "issues", <<>>)
        recommendations == Get(md, "recommendations", <<>>)
        synthesized ==
            IF platform_failed > PlatformFailedJobs
            THEN <<FailedJobsIssue(platform_name, platform_failed)>>
            ELSE <<>>
    IN  [acc EXCEPT
            !.total_jobs = @ + platform_jobs,
            !.failed_jobs = @ + platform_failed,
            !.critical_issues = @ \o issues \o synthesized,
            !.all_recommendations = @ \o recommendations]

\* one iteration of "for platform_result in platform_results"
ProcessPlatformResult(platform_result, acc) ==
    LET platform_name == Get(platform_result, "platform", "unknown")
    IN  IF Get(platform_result, "success", FALSE)
        THEN LET counted == [acc EXCEPT !.successful_platforms = @ + 1]
                 monitoring_data ==
                     Get(platform_result, "monitoring_data", DictData([x \in {} |-> 0]))
             IN  IF IsDict(monitoring_data)
                 THEN CollectSummary(platform_name, monitoring_data.val, counted)
                 ELSE counted
        ELSE [acc EXCEPT
                !.failed_platforms = @ + 1,
                !.critical_issues = @ \o
                    <<MonitoringFailedIssue(platform_name,
                        Get(platform_result, "error", "Unknown error"))>>]

RECURSIVE ProcessPlatformResults(_, _)
ProcessPlatformResults(results, acc) ==
    IF results = <<>> THEN acc
    ELSE ProcessPlatformResults(Tail(results),
                                ProcessPlatformResult(Head(results), acc))

\* success_rate < bound, for success_rate = (total-failed)/total*100 if total > 0
\* else 100 (the float comparison agrees with the exact one for these sizes)
SuccessRateBelow(total_jobs, failed_jobs, bound) ==
    IF total_jobs > 0
    THEN (total_jobs - failed_jobs) * 100 < bound * total_jobs
    ELSE 100 < bound


\* the chain with the MEDIUM branch tested before the HIGH branch
DetermineRiskMediumFirst(c) ==
    IF c.failed_platforms > CriticalFailedPlatforms \/ c.failed_jobs > CriticalFailedJobs
    THEN <<"CRITICAL", "Critical - Multiple systems experiencing issues">>
    ELSE IF c.failed_jobs > MediumFailedJobs
            \/ SuccessRateBelow(c.total_jobs, c.failed_jobs, MediumSuccessRate)
    THEN <<"MEDIUM", "Fair - Some issues require attention">>
    ELSE IF c.failed_platforms = HighFailedPlatforms \/ c.failed_jobs > HighFailedJobs
    THEN <<"HIGH", "Poor - Significant issues detected">>
    ELSE <<"LOW", "Good - Minor issues detected">>

\* the chain with the failed platform left out of the HIGH branch
DetermineRiskByJobsOnly(c) ==
    IF c.failed_platforms > CriticalFailedPlatforms \/ c.failed_jobs > CriticalFailedJobs
    THEN <<"CRITICAL", "Critical - Multiple systems experiencing issues">>
    ELSE IF c.failed_jobs > HighFailedJobs
    THEN <<"HIGH", "Poor - Significant issues detected">>
    ELSE IF c.failed_jobs > MediumFailedJobs
            \/ SuccessRateBelow(c.total_jobs, c.failed_jobs, MediumSuccessRate)
    THEN <<"MEDIUM", "Fair - Some issues require attention">>
    ELSE <<"LOW", "Good - Minor issues detected">>

\* the if/elif chain: <<risk_level, overall_health>>
DetermineRisk(c) ==
    IF c.failed_platforms > CriticalFailedPlatforms \/ c.failed_jobs > CriticalFailedJobs
    THEN <<"CRITICAL", "Critical - Multiple systems experiencing issues">>
    ELSE IF c.failed_platforms = HighFailedPlatforms \/ c.failed_jobs > HighFailedJobs
    THEN <<"HIGH", "Poor - Significant issues detected">>
    ELSE IF c.failed_jobs > MediumFailedJobs
            \/ SuccessRateBelow(c.total_jobs, c.failed_jobs, MediumSuccessRate)
    THEN <<"MEDIUM", "Fair - Some issues require attention">>
    ELSE IF SuccessRateBelow(c.total_jobs, c.failed_jobs, GoodSuccessRate)
            \/ Len(c.critical_issues) > 0
    THEN <<"LOW", "Good - Minor issues detected">>
    ELSE <<"LOW", "Excellent - All systems operational">>

RequiresNotification(risk_level, failed_jobs) ==
    risk_level \in {"HIGH", "CRITICAL"} \/ failed_jobs > NotifyFailedJobs


\* an except branch that reports the failed assessment as healthy
DegradedAssessmentQuiet(error) ==
    [overall_health |-> "Unknown - Assessment failed",
     risk_level |-> "LOW",
     requires_notification |-> FALSE,
     error |-> error]

\* the except branch
DegradedAssessment(error) ==
    [overall_health |-> "Unknown - Assessment failed",
     risk_level |-> "MEDIUM",
     requires_notification |-> TRUE,
     error |-> error]

\* The returned dict.  The rounded success_rate and platform_availability and
\* the timestamp are display values no tool reads back; they are left out.
AssessOverallSystemHealth(results) ==
    LET c == ProcessPlatformResults(results, InitialCounters)
        risk == DetermineRisk(c)
    IN  IF Len(results) = 0
        THEN \* platform_availability divides by len(platform_results)
             DegradedAssessment("division by zero")
        ELSE [overall_health |-> risk[2],
              risk_level |-> risk[1],
              requires_notification |-> RequiresNotification(risk[1], c.failed_jobs),
              jobs_analyzed |-> c.total_jobs,
              failed_jobs_count |-> c.failed_jobs,
              successful_platforms |-> c.successful_platforms,
              failed_platforms |-> c.failed_platforms,
              critical_issues |-> ListOfSet(c.critical_issues),
              recommendations |-> ListOfSet(c.all_recommendations)]

----------------------------------------------------------------------------
(* send_health_notifications *)

\* "if not recipient_emails": None or an empty list gets the two defaults
DefaultRecipients == <<"devops@company.com", "data-engineering@company.com">>

Recipients(recipient_emails) ==
    IF Len(recipient_emails) = 0 THEN DefaultRecipients ELSE recipient_emails


\* the short-circuit without the test of failed_jobs_count
SkipNotificationOnLowRisk(risk_level, failed_jobs_count, requires_notification) ==
    risk_level = "LOW" /\ ~requires_notification

\* the healthy short-circuit
SkipNotification(risk_level, failed_jobs_count, requires_notification) ==
    risk_level = "LOW" /\ failed_jobs_count = 0 /\ ~requires_notification

\* the monitoring context the email agent is run with
MonitoringContext(overall_assessment) ==
    [overall_health |-> Get(overall_assessment, "overall_health", "Unknown"),
     risk_level |-> Get(overall_assessment, "risk_level", "LOW"),
     failed_jobs_count |-> Get(overall_assessment, "failed_jobs_count", 0),
     total_jobs_count |-> Get(overall_assessment, "jobs_analyzed", 0),
     recommendations |-> Get(overall_assessment, "recommendations", <<>>),
     requires_notification |-> Get(overall_assessment, "requires_notification", FALSE)]

NoContext == [none |-> TRUE]

\* <<returned dict, context the email agent ran with or NoContext>>;
\* email_raises: whether email_agent.run raises when it is run
SendHealthNotifications(overall_assessment, recipient_emails, email_raises) ==
    LET risk_level == Get(overall_assessment, "risk_level", "LOW")
        requires_notification == Get(overall_assessment, "requires_notification", FALSE)
        failed_jobs_count == Get(overall_assessment, "failed_jobs_count", 0)
    IN  IF SkipNotification(risk_level, failed_jobs_count, requires_notification)
        THEN <<[notification_sent |-> FALSE,
                reason |-> "System healthy, no notification required",
                risk_level |-> risk_level],
               NoContext>>
        ELSE IF email_raises
        THEN <<[notification_sent |-> FALSE, error |-> "email agent failed"],
               MonitoringContext(overall_assessment)>>
        ELSE <<[notification_sent |-> TRUE,
                risk_level |-> risk_level,
                recipients_count |-> Len(Recipients(recipient_emails))],
               MonitoringContext(overall_assessment)>>

----------------------------------------------------------------------------
(* monitor_airbyte_platform and the Airbyte agent's job tool *)

\* get_airbyte_jobs: the collector's records as dicts, or, when the collector
\* raises, a one-element list holding the error
GetAirbyteJobs(collector) ==
    IF collector.raised
    THEN <<[error |-> "Failed to retrieve Airbyte jobs"]>>
    ELSE collector.records

\* analyze_job_patterns and create_platform_health_summary refuse error data
HasErrorEntry(jobs_data) == \E i \in 1..Len(jobs_data) : "error" \in DOMAIN jobs_data[i]

ErrorSummary == [error |-> "Insufficient data for health summary"]

\* monitor_airbyte_platform: agent_raised is whether airbyte_agent.run raised,
\* data is result.data otherwise
MonitorAirbytePlatform(agent_raised, data) ==
    IF agent_raised
    THEN [platform |-> "airbyte", success |-> FALSE, error |-> "agent run failed"]
    ELSE [platform |-> "airbyte", success |-> TRUE, monitoring_data |-> data]

----------------------------------------------------------------------------
(* Inputs *)

PlatformNames == {"airbyte", "databricks"}

\* <<total_jobs, failed_jobs>> at and next to every threshold on failed_jobs,
\* at a success rate of exactly 90, and one pair below 90
FailedJobsBoundaries ==
    {0, 1} \cup {t + d : t \in {MediumFailedJobs, NotifyFailedJobs,
                                HighFailedJobs, CriticalFailedJobs},
                         d \in {0, 1}}

JobCounts ==
    {<<10 * f, f>> : f \in FailedJobsBoundaries} \cup {<<10, 0>>, <<9, 1>>}

IssueLists ==
    {<<TextIssue("1 unhealthy connections detected")>>,
     <<TextIssue("1 unhealthy connections detected"),
       TextIssue("1 unhealthy connections detected")>>,
     <<TextIssue("High number of failed jobs: 6"), FailedJobsIssue("airbyte", 6)>>}

RecommendationLists ==
    {<<>>,
     <<"Investigate 6 failed jobs", "Review job timeout configurations",
       "Investigate 6 failed jobs">>}

PlainSummaries ==
    {[total_jobs |-> c[1], failed_jobs |-> c[2],
      issues |-> <<>>, recommendations |-> <<>>] : c \in JobCounts}

IssueSummaries ==
    {[total_jobs |-> c[1], failed_jobs |-> c[2],
      issues |-> i, recommendations |-> r] :
        c \in {<<10, 0>>, <<60, 6>>}, i \in IssueLists, r \in RecommendationLists}

\* results of monitoring tools as the orchestrator hands them to the assessor
SuppliedResults ==
    {[platform |-> "databricks", success |-> TRUE, monitoring_data |-> DictData(s)] :
        s \in PlainSummaries}
    \cup
    {[platform |-> "airbyte", success |-> TRUE, monitoring_data |-> DictData(s)] :
        s \in IssueSummaries}
    \cup
    {[platform |-> p, success |-> FALSE, error |-> "timeout"] : p \in PlatformNames}
    \cup
    {[success |-> FALSE]}

\* what the Airbyte collector does: raise, or return job records
CollectorOutcomes ==
    {[raised |-> TRUE],
     [raised |-> FALSE,
      records |-> <<[job_id |-> "airbyte_1", status |-> "success"]>>]}

\* result.data of the Airbyte agent: free text, or the summary its tools made
AgentAnswers(jobs_data) ==
    {StrData} \cup
    (IF HasErrorEntry(jobs_data)
     THEN {DictData(ErrorSummary)}
     ELSE {DictData(s) : s \in {x \in PlainSummaries : x.failed_jobs \in {0, 6}}})

\* assessments the orchestrator may pass to send_health_notifications besides
\* the assessor's own
OtherAssessments ==
    {[x \in {} |-> 0],
     [risk_level |-> "LOW", requires_notification |-> TRUE, failed_jobs_count |-> 0]}

RecipientLists == {<<>>, <<"oncall@company.com">>}

----------------------------------------------------------------------------
(* Status mappers.  A Python str is the sequence of its characters, so that *)
(* str.lower() is computed; a JSON value is Str(s) or Null.                 *)

UpperLetters ==
    <<"A", "B", "C", "D", "E", "F", "G", "H", "I", "J", "K", "L", "M", "N", "O", "P", "Q", "R", "S", "T", "U", "V", "W", "X", "Y", "Z">>

LowerLetters ==
    <<"a", "b", "c", "d", "e", "f", "g", "h", "i", "j", "k", "l", "m", "n", "o", "p", "q", "r", "s", "t", "u", "v", "w", "x", "y", "z">>

\* str.lower(), one character
LowerChar(c) ==
    IF \E i \in 1..Len(UpperLetters) : UpperLetters[i] = c
    THEN LowerLetters[CHOOSE i \in 1..Len(UpperLetters) : UpperLetters[i] = c]
    ELSE c

\* str.lower()
Lower(str) == [i \in 1..Len(str) |-> LowerChar(str[i])]

S_succeeded == <<"s", "u", "c", "c", "e", "e", "d", "e", "d">>

S_failed == <<"f", "a", "i", "l", "e", "d">>

S_cancelled == <<"c", "a", "n", "c", "e", "l", "l", "e", "d">>

S_canceled == <<"c", "a", "n", "c", "e", "l", "e", "d">>

S_running == <<"r", "u", "n", "n", "i", "n", "g">>

S_pending == <<"p", "e", "n", "d", "i", "n", "g">>

S_incomplete == <<"i", "n", "c", "o", "m", "p", "l", "e", "t", "e">>

S_waiting == <<"w", "a", "i", "t", "i", "n", "g">>

S_suspended == <<"s", "u", "s", "p", "e", "n", "d", "e", "d">>

S_scheduled == <<"s", "c", "h", "e", "d", "u", "l", "e", "d">>

S_skipped == <<"s", "k", "i", "p", "p", "e", "d">>

S_success == <<"s", "u", "c", "c", "e", "s", "s">>

S_terminated == <<"t", "e", "r", "m", "i", "n", "a", "t", "e", "d">>

S_internal_error == <<"i", "n", "t", "e", "r", "n", "a", "l", "_", "e", "r", "r", "o", "r">>

S_bogus == <<"b", "o", "g", "u", "s">>

S_terminating == <<"t", "e", "r", "m", "i", "n", "a", "t", "i", "n", "g">>

JobStatus == {"running", "success", "failed", "cancelled", "pending", "unknown"}

Returned(value) == [raised |-> FALSE, value |-> value]

Raised(exception) == [raised |-> TRUE, value |-> exception]

Str(chars) == [str |-> chars]

Null == [null |-> TRUE]

IsNull(v) == "null" \in DOMAIN v

MapAirbyteStatus(airbyte_status) ==
    LET key == Lower(airbyte_status)
    IN  Returned(CASE key = S_succeeded -> "success"
                   [] key = S_failed -> "failed"
                   [] key = S_cancelled -> "cancelled"
                   [] key = S_running -> "running"
                   [] key = S_pending -> "pending"
                   [] key = S_incomplete -> "running"
                   [] OTHER -> "unknown")

\* dict.get(key, "") returns a null that is present; None.lower() raises
MapDatabricksStatus(databricks_state) ==
    LET life_cycle == Get(databricks_state, "life_cycle_state", Str(<<>>))
        result == Get(databricks_state, "result_state", Str(<<>>))
    IN  IF IsNull(life_cycle) \/ IsNull(result)
        THEN Raised("AttributeError")
        ELSE LET life_cycle_state == Lower(life_cycle.str)
                 result_state == Lower(result.str)
             IN  IF life_cycle_state = S_terminated
                 THEN Returned(CASE result_state = S_success -> "success"
                                 [] result_state = S_failed -> "failed"
                                 [] result_state = S_canceled -> "cancelled"
                                 [] OTHER -> "unknown")
                 ELSE IF life_cycle_state \in {S_pending, S_running}
                 THEN Returned("running")
                 ELSE Returned("unknown")

MapPowerautomateStatus(pa_status) ==
    LET key == Lower(pa_status)
    IN  Returned(CASE key = S_succeeded -> "success"
                   [] key = S_failed -> "failed"
                   [] key = S_cancelled -> "cancelled"
                   [] key = S_running -> "running"
                   [] key = S_waiting -> "pending"
                   [] key = S_suspended -> "pending"
                   [] OTHER -> "unknown")

MapSnowflakeTaskStatus(snowflake_state) ==
    LET key == Lower(snowflake_state)
    IN  Returned(CASE key = S_succeeded -> "success"
                   [] key = S_failed -> "failed"
                   [] key = S_cancelled -> "cancelled"
                   [] key = S_running -> "running"
                   [] key = S_scheduled -> "pending"
                   [] key = S_skipped -> "cancelled"
                   [] OTHER -> "unknown")

\* the raw inputs: every word in lower case, upper case and capitalised
UpperChar(c) ==
    IF \E i \in 1..Len(LowerLetters) : LowerLetters[i] = c
    THEN UpperLetters[CHOOSE i \in 1..Len(LowerLetters) : LowerLetters[i] = c]
    ELSE c

Upper(str) == [i \in 1..Len(str) |-> UpperChar(str[i])]

Capitalized(str) == [i \in 1..Len(str) |-> IF i = 1 THEN UpperChar(str[i]) ELSE str[i]]

StatusWords ==
    {S_succeeded, S_failed, S_cancelled, S_canceled, S_running, S_pending,
     S_incomplete, S_waiting, S_suspended, S_scheduled, S_skipped, S_success,
     S_terminated, S_internal_error, S_bogus}

RawStrings ==
    {<<>>} \cup UNION {{w, Upper(w), Capitalized(w)} : w \in StatusWords}

LifeCycleWords ==
    {S_terminated, S_pending, S_running, S_terminating, S_internal_error, S_skipped}

ResultWords == {S_success, S_failed, S_canceled, S_bogus}

\* the value of a key of the state dict, or the key missing
Absent == [absent |-> TRUE]

LifeCycleValues ==
    {Absent, Null, Str(<<>>)} \cup
    UNION {{Str(w), Str(Upper(w))} : w \in LifeCycleWords}

ResultValues ==
    {Absent, Null, Str(<<>>)} \cup
    UNION {{Str(w), Str(Upper(w))} : w \in ResultWords}

Entry(key, value) == IF value = Absent THEN <<>> ELSE key :> value

\* run.state as the Databricks API returns it
DatabricksStates ==
    {Entry("life_cycle_state", l) @@ Entry("result_state", r) :
        l \in LifeCycleValues, r \in ResultValues}

----------------------------------------------------------------------------
(* The Airbyte agent's analysis tools.  A rate is held in hundredths of a   *)
(* percent, which is what round(rate, 2) keeps of it.                       *)

\* round(num / den * 100, 2) in hundredths, a tie going to the even digit
Round2(num, den) ==
    LET x == num * 10000
        q == x \div den
        twice_rest == 2 * (x % den)
    IN  IF twice_rest > den \/ (twice_rest = den /\ q % 2 = 1) THEN q + 1 ELSE q

\* sub in str
Contains(str, sub) ==
    \E i \in 0..(Len(str) - Len(sub)) : SubSeq(str, i + 1, i + Len(sub)) = sub

S_timeout == <<"t", "i", "m", "e", "o", "u", "t">>

S_connection == <<"c", "o", "n", "n", "e", "c", "t", "i", "o", "n">>

S_authentication ==
    <<"a", "u", "t", "h", "e", "n", "t", "i", "c", "a", "t", "i", "o", "n">>

S_auth == <<"a", "u", "t", "h">>

\* the simple error categorization of analyze_job_patterns
ErrorCategory(error_message) ==
    LET error_msg == Lower(error_message)
    IN  IF Contains(error_msg, S_timeout) THEN "timeout"
        ELSE IF Contains(error_msg, S_connection) THEN "connection"
        ELSE IF Contains(error_msg, S_authentication) \/ Contains(error_msg, S_auth)
        THEN "authentication"
        ELSE "other"

CountJobs(jobs, status) ==
    Cardinality({i \in 1..Len(jobs) : Get(jobs[i], "status", "") = status})

\* job.get("status") == "failed" and job.get("error_message")
FailedWithMessage(job) ==
    /\ Get(job, "status", "") = "failed"
    /\ Get(job, "error_message", <<>>) # <<>>

ErrorPatterns(jobs) ==
    LET with_message == {i \in 1..Len(jobs) : FailedWithMessage(jobs[i])}
        categories == {ErrorCategory(jobs[i].error_message) : i \in with_message}
    IN  [c \in categories |->
            Cardinality({i \in with_message : ErrorCategory(jobs[i].error_message) = c})]

NoValidJobData == [error |-> "No valid job data available for analysis"]

\* the keys of the analysis that a later step reads; the average duration,
\* the failed job names and the timestamp are left out
AnalyzeJobPatterns(jobs) ==
    IF Len(jobs) = 0 \/ HasErrorEntry(jobs)
    THEN NoValidJobData
    ELSE LET total_jobs == Len(jobs)
             successful_jobs == CountJobs(jobs, "success")
             failed_jobs == CountJobs(jobs, "failed")
             running_jobs == CountJobs(jobs, "running")
         IN  [total_jobs |-> total_jobs,
              successful_jobs |-> successful_jobs,
              failed_jobs |-> failed_jobs,
              running_jobs |-> running_jobs,
              success_rate |-> IF total_jobs > 0 THEN Round2(successful_jobs, total_jobs)
                               ELSE 0,
              failure_rate |-> IF total_jobs > 0 THEN Round2(failed_jobs, total_jobs)
                               ELSE 0,
              error_patterns |-> ErrorPatterns(jobs)]

\* thresholds of create_platform_health_summary, in percent and in jobs
ExcellentSuccessRate == 95

GoodPlatformSuccessRate == 85

GoodPlatformFailedJobs == 2

FairSuccessRate == 70

FairFailedJobs == 5

PoorSuccessRate == 50

RetrySuccessRate == 90

IssueFailedJobs == 3

IssueSuccessRate == 85

Percent(p) == p * 100

\* the chain with the Good and the Fair branch in the other order
PlatformHealthFairFirst(success_rate, failed_jobs) ==
    IF success_rate >= Percent(ExcellentSuccessRate) /\ failed_jobs = 0
    THEN <<"Excellent - All systems operational", "LOW">>
    ELSE IF success_rate >= Percent(FairSuccessRate) /\ failed_jobs <= FairFailedJobs
    THEN <<"Fair - Some issues need attention", "MEDIUM">>
    ELSE IF success_rate >= Percent(GoodPlatformSuccessRate)
            /\ failed_jobs <= GoodPlatformFailedJobs
    THEN <<"Good - Minor issues detected", "LOW">>
    ELSE IF success_rate >= Percent(PoorSuccessRate)
    THEN <<"Poor - Multiple issues detected", "HIGH">>
    ELSE <<"Critical - Major failures detected", "CRITICAL">>

\* the first branch of the chain that matches: <<platform_status, risk_level>>
PlatformHealth(success_rate, failed_jobs) ==
    IF success_rate >= Percent(ExcellentSuccessRate) /\ failed_jobs = 0
    THEN <<"Excellent - All systems operational", "LOW">>
    ELSE IF success_rate >= Percent(GoodPlatformSuccessRate)
            /\ failed_jobs <= GoodPlatformFailedJobs
    THEN <<"Good - Minor issues detected", "LOW">>
    ELSE IF success_rate >= Percent(FairSuccessRate) /\ failed_jobs <= FairFailedJobs
    THEN <<"Fair - Some issues need attention", "MEDIUM">>
    ELSE IF success_rate >= Percent(PoorSuccessRate)
    THEN <<"Poor - Multiple issues detected", "HIGH">>
    ELSE <<"Critical - Major failures detected", "CRITICAL">>

\* a recommendation is the record of the parts its text is formatted from
Recommendation(text, n) == [text |-> text, n |-> n]

When(condition, item) == IF condition THEN <<item>> ELSE <<>>

SummaryRecommendations(success_rate, failed_jobs, error_patterns) ==
    When(failed_jobs > 0, Recommendation("Investigate {n} failed jobs", failed_jobs))
    \o When(Get(error_patterns, "timeout", 0) > 0,
            Recommendation("Review job timeout configurations", 0))
    \o When(Get(error_patterns, "connection", 0) > 0,
            Recommendation("Check connection configurations and network connectivity", 0))
    \o When(Get(error_patterns, "authentication", 0) > 0,
            Recommendation("Verify API credentials and authentication settings", 0))
    \o When(success_rate < Percent(RetrySuccessRate),
            Recommendation("Consider implementing job retry mechanisms", 0))

\* f"High number of failed jobs: {failed_jobs}"
HighFailedJobsIssue(failed_jobs) ==
    [kind |-> "high_failed_jobs", who |-> "", n |-> failed_jobs, text |-> ""]

\* f"Low success rate: {success_rate:.1f}%"; the record keeps the rate itself,
\* of which the text shows one decimal
LowSuccessRateIssue(success_rate) ==
    [kind |-> "low_success_rate", who |-> "", n |-> success_rate, text |-> ""]

\* f"{unhealthy_count} unhealthy connections detected"
UnhealthyConnectionsIssue(unhealthy_count) ==
    [kind |-> "unhealthy_connections", who |-> "", n |-> unhealthy_count, text |-> ""]

SummaryIssues(success_rate, failed_jobs, total_connections, healthy_connections) ==
    When(failed_jobs > IssueFailedJobs, HighFailedJobsIssue(failed_jobs))
    \o When(success_rate < Percent(IssueSuccessRate), LowSuccessRateIssue(success_rate))
    \o When(total_connections > healthy_connections,
            UnhealthyConnectionsIssue(total_connections - healthy_connections))

\* jobs_analysis.get("error") is truthy
HasError(d) == Get(d, "error", "") # ""

CreatePlatformHealthSummary(analysis, connections) ==
    IF HasError(analysis) \/ HasErrorEntry(connections)
    THEN ErrorSummary
    ELSE LET success_rate == Get(analysis, "success_rate", 0)
             failed_jobs == Get(analysis, "failed_jobs", 0)
             error_patterns == Get(analysis, "error_patterns", <<>>)
             health == PlatformHealth(success_rate, failed_jobs)
             total_connections == Len(connections)
             healthy_connections ==
                 Cardinality({i \in 1..Len(connections) :
                                 Get(connections[i], "is_healthy", FALSE)})
             issues == SummaryIssues(success_rate, failed_jobs,
                                     total_connections, healthy_connections)
         IN  [platform |-> "airbyte",
              total_jobs |-> Get(analysis, "total_jobs", 0),
              successful_jobs |-> Get(analysis, "successful_jobs", 0),
              failed_jobs |-> failed_jobs,
              running_jobs |-> Get(analysis, "running_jobs", 0),
              platform_status |-> health[1],
              risk_level |-> health[2],
              success_rate |-> success_rate,
              failure_rate |-> Get(analysis, "failure_rate", 0),
              total_connections |-> total_connections,
              healthy_connections |-> healthy_connections,
              issues |-> issues,
              recommendations |->
                  SummaryRecommendations(success_rate, failed_jobs, error_patterns),
              requires_attention |->
                  health[2] \in {"HIGH", "CRITICAL"} \/ Len(issues) > 2]

----------------------------------------------------------------------------
(* The PlatformHealthSummary model.  Its two rate properties are float      *)
(* quotients; a rate is held here as the exact fraction num / den.          *)

Fraction(num, den) == [num |-> num, den |-> den]

\* (count / total_jobs) * 100, or 0.0 when there are no jobs
RateProperty(count, total_jobs) ==
    IF total_jobs = 0 THEN Fraction(0, 1) ELSE Fraction(count * 100, total_jobs)

ValidationError == [validation_error |-> TRUE]

\* each count is validated on its own (ge=0); no validator relates them
PlatformHealthSummary(total_jobs, successful_jobs, failed_jobs, running_jobs) ==
    IF total_jobs < 0 \/ successful_jobs < 0 \/ failed_jobs < 0 \/ running_jobs < 0
    THEN ValidationError
    ELSE [total_jobs |-> total_jobs,
          successful_jobs |-> successful_jobs,
          failed_jobs |-> failed_jobs,
          running_jobs |-> running_jobs,
          success_rate |-> RateProperty(successful_jobs, total_jobs),
          failure_rate |-> RateProperty(failed_jobs, total_jobs)]

----------------------------------------------------------------------------
(* Inputs of the analysis tools *)

M_read_timeout ==
    <<"R", "e", "a", "d", " ", "T", "i", "m", "e", "o", "u", "t">>

M_connection_reset ==
    <<"C", "o", "n", "n", "e", "c", "t", "i", "o", "n", " ", "r", "e", "s", "e", "t">>

M_unauthorized == <<"U", "n", "a", "u", "t", "h", "o", "r", "i", "z", "e", "d">>

M_disk_full == <<"d", "i", "s", "k", " ", "f", "u", "l", "l">>

\* error_message of a failed job: none, or one of each category
ErrorMessages == {<<>>, M_read_timeout, M_connection_reset, M_unauthorized, M_disk_full}

SucceededJob == [job_name |-> "sync", status |-> "success"]

RunningJob == [job_name |-> "sync", status |-> "running"]

FailedJob(error_message) ==
    IF error_message = <<>>
    THEN [job_name |-> "sync", status |-> "failed"]
    ELSE [job_name |-> "sync", status |-> "failed", error_message |-> error_message]

\* a batch of s succeeded, f failed and r running job records
Batch(s, f, r, error_message) ==
    [i \in 1..(s + f + r) |->
        IF i <= s THEN SucceededJob
        ELSE IF i <= s + f THEN FailedJob(error_message)
        ELSE RunningJob]

JobBatches ==
    {Batch(s, 0, r, <<>>) : s \in 0..MaxSucceeded, r \in 0..MaxRunning}
    \cup
    {Batch(s, f, r, m) : s \in 0..MaxSucceeded, f \in 1..MaxFailed,
                         r \in 0..MaxRunning, m \in ErrorMessages}
    \cup
    {<<[error |-> "Failed to retrieve Airbyte jobs"]>>}

HealthyConnection == [connection_id |-> "conn_1", is_healthy |-> TRUE]

UnhealthyConnection == [connection_id |-> "conn_2", is_healthy |-> FALSE]

ConnectionLists ==
    {<<>>,
     <<HealthyConnection>>,
     <<HealthyConnection, UnhealthyConnection>>,
     <<HealthyConnection, [connection_id |-> "conn_3"]>>,
     <<[error |-> "Failed to retrieve connection health"]>>}

\* an analysis the agent passes without any of the keys read
SuppliedAnalyses == {[x \in {} |-> 0]}

FieldValues == -1..MaxFieldValue

----------------------------------------------------------------------------
(* The email agent's generate_monitoring_notification.  An e-mail address   *)
(* is the sequence of its characters, so that its validation is computed.   *)

\* thresholds of the template selection, in failed jobs
UrgentFailedJobs == 10

WarningFailedJobs == 5

NotificationPriority == {"low", "normal", "high", "urgent"}

\* the selection with the failed-job thresholds of the two alerts exchanged
SelectTemplateSwapped(risk_level, failed_jobs) ==
    IF risk_level = "CRITICAL" \/ failed_jobs > WarningFailedJobs
    THEN [template_key |-> "critical_alert", priority |-> "urgent"]
    ELSE IF risk_level = "HIGH" \/ failed_jobs > UrgentFailedJobs
    THEN [template_key |-> "warning_alert", priority |-> "high"]
    ELSE [template_key |-> "info_summary", priority |-> "normal"]

SelectTemplate(risk_level, failed_jobs) ==
    IF risk_level = "CRITICAL" \/ failed_jobs > UrgentFailedJobs
    THEN [template_key |-> "critical_alert", priority |-> "urgent"]
    ELSE IF risk_level = "HIGH" \/ failed_jobs > WarningFailedJobs
    THEN [template_key |-> "warning_alert", priority |-> "high"]
    ELSE [template_key |-> "info_summary", priority |-> "normal"]

\* EmailStr: one "@" between a local part and a domain that has an inner dot
IsEmail(address) ==
    LET ats == {i \in 1..Len(address) : address[i] = "@"}
    IN  /\ Cardinality(ats) = 1
        /\ LET at == CHOOSE i \in ats : TRUE
           IN  /\ at > 1
               /\ \E i \in (at + 2)..(Len(address) - 1) : address[i] = "."
               /\ address[at + 1] # "."

\* a str or None is truthy
Truthy(v) == ~IsNull(v) /\ v.str # <<>>

\* what the transport answers: the Graph sendMail call returns no message id
TransportResult(operation, delivered) ==
    IF delivered
    THEN [success |-> TRUE,
          message_id |-> IF operation = "draft" THEN Str(<<"d", "1">>) ELSE Null,
          error_message |-> Null]
    ELSE [success |-> FALSE, message_id |-> Null,
          error_message |-> Str(<<"f", "a", "i", "l", "e", "d">>)]

PreviewResult ==
    [success |-> TRUE,
     message_id |-> Str(<<"p", "r", "e", "v", "i", "e", "w", "_", "o", "n", "l", "y">>),
     error_message |-> Null]

GenerationFailed == [error |-> "Notification generation failed"]

\* the draft is made when an address is set and, without one, nothing is sent
SendOrDraftAlwaysSends(send_notification, from_email) ==
    IF Truthy(from_email) THEN "send" ELSE "preview"

\* which of send, draft, preview the call ends in
SendOrDraft(send_notification, from_email) ==
    IF send_notification /\ Truthy(from_email) THEN "send"
    ELSE IF Truthy(from_email) THEN "draft"
    ELSE "preview"

\* Returns <<response, transport calls made>>.  deps is ctx.deps; delivered
\* is whether the transport call, if one is made, succeeds.  The body is
\* formatted from the same values as the subject and is left out.
GenerateMonitoringNotification(deps, monitoring_context, recipient_emails, send_notification, delivered) ==
    LET failed_jobs == Get(monitoring_context, "failed_jobs_count", 0)
        total_jobs == Get(monitoring_context, "total_jobs_count", 0)
        risk_level == Get(monitoring_context, "risk_level", "LOW")
        monitoring_id == Get(monitoring_context, "monitoring_id", "mon_generated")
        selected == SelectTemplate(risk_level, failed_jobs)
        operation == SendOrDraft(send_notification, deps.from_email)
        email_notification ==
            [notification_id |-> <<"notif", monitoring_id>>,
             recipients_count |-> Len(recipient_emails),
             subject |-> [template |-> selected.template_key,
                          failed_count |-> failed_jobs, total_count |-> total_jobs],
             priority |-> selected.priority,
             metadata |-> [monitoring_id |-> monitoring_id, risk_level |-> risk_level]]
        call == [operation |-> operation, notification |-> email_notification]
        result == IF operation = "preview" THEN PreviewResult
                  ELSE TransportResult(operation, delivered)
    IN  IF \E i \in 1..Len(recipient_emails) : ~IsEmail(recipient_emails[i])
        THEN <<GenerationFailed, <<>>>>          \* EmailRecipient validation
        ELSE IF operation # "preview" /\ ~deps.credentials
        THEN <<GenerationFailed, <<>>>>          \* OutlookAPIClient raises ValueError
        ELSE <<[notification_generated |-> TRUE,
                template_used |-> selected.template_key,
                priority |-> selected.priority,
                subject |-> email_notification.subject,
                recipients_count |-> Len(recipient_emails),
                send_result |->
                    IF send_notification
                    THEN [success |-> result.success,
                          message_id |-> result.message_id,
                          error |-> result.error_message]
                    ELSE [action |-> IF Truthy(deps.from_email) THEN "draft_created"
                                     ELSE "preview_only"],
                notification_id |-> email_notification.notification_id],
               IF operation = "preview" THEN <<>> ELSE <<call>>>>

----------------------------------------------------------------------------
(* Inputs of the email agent *)

A_ops == <<"o", "p", "s", "@", "c", "o", ".", "i", "o">>

A_monitor == <<"m", "o", "n", "@", "c", "o", ".", "i", "o">>

A_malformed == <<"o", "p", "s", ".", "c", "o">>

RecipientEmailLists == {<<>>, <<A_ops>>, <<A_ops, A_malformed>>}

\* ctx.deps: the sender address (None, empty or set) and whether the three
\* Outlook credentials are all non-empty
EmailDeps ==
    {[from_email |-> f, credentials |-> c] :
        f \in {Null, Str(<<>>), Str(A_monitor)}, c \in BOOLEAN}

FailedJobsCounts ==
    {0} \cup {t + d : t \in {WarningFailedJobs, UrgentFailedJobs}, d \in {0, 1}}

ContextRiskLevels == {"LOW", "MEDIUM", "HIGH", "CRITICAL"}

\* monitoring contexts: with and without the keys the tool reads
MonitoringContexts ==
    {[failed_jobs_count |-> f, total_jobs_count |-> 20, risk_level |-> r,
      monitoring_id |-> "mon_1"] : f \in FailedJobsCounts, r \in ContextRiskLevels}
    \cup
    {[failed_jobs_count |-> f] : f \in FailedJobsCounts}
    \cup
    {[risk_level |-> r] : r \in ContextRiskLevels}

----------------------------------------------------------------------------
(* The platform normalizers.  Time is in milliseconds.  A datetime is the   *)
(* record of its instant and of whether it carries a zone; the text of a    *)
(* timestamp is the record of the instant and the zone suffix it spells, or *)
(* text that is no timestamp.  An optional int is IntOf(n) or Null.        *)

IntOf(n) == [int |-> n]

Datetime(t, aware) == [t |-> t, aware |-> aware]

Iso(t, zone) == [iso |-> TRUE, t |-> t, zone |-> zone]

NotATimestamp == [iso |-> FALSE]

IsDatetime(v) == "aware" \in DOMAIN v

IsText(v) == "iso" \in DOMAIN v

HasValue(v) == ~IsNull(v)

\* an int or None is truthy
NonZero(v) == ~IsNull(v) /\ v.int # 0

\* text.replace('Z', '+00:00')
ReplaceZ(text) == IF text.iso /\ text.zone = "Z" THEN Iso(text.t, "+00:00") ELSE text

\* datetime.fromisoformat(text); accepts_z is whether the interpreter's
\* parser takes the suffix Z (it does from Python 3.11 on)
FromIsoFormat(text, accepts_z) ==
    IF ~text.iso \/ (text.zone = "Z" /\ ~accepts_z)
    THEN Raised("ValueError")
    ELSE Returned(Datetime(text.t, text.zone # ""))

\* end - start in milliseconds; a naive and an aware datetime do not subtract
Subtract(end, start) ==
    IF end.aware # start.aware THEN Raised("TypeError") ELSE Returned(end.t - start.t)

\* int(timedelta.total_seconds()): whole seconds, truncated toward zero
TotalSeconds(ms) == IF ms >= 0 THEN ms \div 1000 ELSE -((-ms) \div 1000)

\* the record as constructed with its duration not validated
JobStatusRecordUnvalidated(job_id, platform, job_name, status, last_run_time, duration_seconds, error_message) ==
    Returned([job_id |-> job_id, platform |-> platform, job_name |-> job_name,
              status |-> status, last_run_time |-> last_run_time,
              duration_seconds |-> duration_seconds,
              error_message |-> error_message])

\* JobStatusRecord(...): duration_seconds is validated ge=0
JobStatusRecord(job_id, platform, job_name, status, last_run_time, duration_seconds, error_message) ==
    IF ~IsNull(duration_seconds) /\ duration_seconds.int < 0
    THEN Raised("ValidationError")
    ELSE Returned([job_id |-> job_id, platform |-> platform, job_name |-> job_name,
                   status |-> status, last_run_time |-> last_run_time,
                   duration_seconds |-> duration_seconds,
                   error_message |-> error_message])

\* start parsed under try/except ValueError: the datetime, or None
ParsedOrNone(text, accepts_z) ==
    LET parsed == FromIsoFormat(text, accepts_z)
    IN  IF parsed.raised THEN Null ELSE parsed.value

\* duration of two timestamp texts under try/except ValueError: Returned(an
\* optional int), or Raised for what the except clause does not catch
DurationOfTexts(started, ended) ==
    IF ~(HasValue(started) /\ HasValue(ended)) THEN Returned(Null)
    ELSE LET start_time == FromIsoFormat(ReplaceZ(started), FALSE)
             end_time == FromIsoFormat(ReplaceZ(ended), FALSE)
         IN  IF start_time.raised \/ end_time.raised THEN Returned(Null)
             ELSE LET delta == Subtract(end_time.value, start_time.value)
                  IN  IF delta.raised THEN delta
                      ELSE Returned(IntOf(TotalSeconds(delta.value)))

\* the body of the loop of get_airbyte_job_status for one job
AirbyteRecord(job) ==
    LET last_run_time == IF HasValue(job.started_at)
                         THEN ParsedOrNone(ReplaceZ(job.started_at), FALSE)
                         ELSE Null
        duration == DurationOfTexts(job.started_at, job.ended_at)
    IN  IF duration.raised THEN duration
        ELSE JobStatusRecord(<<job.job_id>>, "airbyte",
                             IF HasValue(job.config_name) THEN job.config_name
                             ELSE <<"Job", job.job_id>>,
                             MapAirbyteStatus(job.status).value,
                             last_run_time, duration.value, Null)

\* a loop with no handler of its own: the first item that raises ends the
\* call, which re-raises as the platform's API error
\* results: what the conversion of each item gives, in order
ConvertAll(results, platform_error) ==
    IF \E i \in 1..Len(results) : results[i].raised
    THEN [raised |-> TRUE, error |-> platform_error, records |-> <<>>]
    ELSE [raised |-> FALSE, error |-> "",
          records |-> [i \in 1..Len(results) |-> results[i].value]]

GetAirbyteJobStatus(jobs) ==
    ConvertAll([i \in 1..Len(jobs) |-> AirbyteRecord(jobs[i])], "AirbyteAPIError")

\* largest instant a datetime holds, and largest one the platform's time_t
\* holds, on the scale of the model's instants
MaxDatetimeMs == 9000

MaxTimeTMs == 9500

\* datetime.fromtimestamp(ms / 1000, tz=timezone.utc)
FromTimestamp(ms) ==
    IF ms > MaxTimeTMs THEN Raised("OverflowError")
    ELSE IF ms > MaxDatetimeMs THEN Raised("ValueError")
    ELSE Returned(Datetime(ms, TRUE))

DatabricksDuration(run) ==
    IF NonZero(run.execution_duration) THEN IntOf(run.execution_duration.int \div 1000)
    ELSE IF NonZero(run.start_time) /\ NonZero(run.end_time)
    THEN IntOf((run.end_time.int - run.start_time.int) \div 1000)
    ELSE Null

\* the state message of a run whose result is FAILED, if it has one
DatabricksErrorMessage(state) ==
    IF Get(state, "result_state", Null) = Str(Upper(S_failed))
          /\ Get(state, "state_message", Str(<<>>)) # Str(<<>>)
    THEN Get(state, "state_message", Str(<<>>))
    ELSE Null

\* the body of the loop of get_databricks_job_status for one run; job_name
\* is what the job cache or the job details gave
DatabricksRecord(run) ==
    LET parsed == IF NonZero(run.start_time) THEN FromTimestamp(run.start_time.int)
                  ELSE Returned(Null)
        status == MapDatabricksStatus(run.state)
    IN  IF parsed.raised /\ parsed.value \notin {"ValueError", "TypeError"}
        THEN parsed
        ELSE IF status.raised THEN status
        ELSE JobStatusRecord(<<"databricks", run.job_id, run.run_id>>, "databricks",
                             <<"Job", run.job_id>>, status.value,
                             IF parsed.raised THEN Null ELSE parsed.value,
                             DatabricksDuration(run),
                             DatabricksErrorMessage(run.state))

GetDatabricksJobStatus(runs) ==
    ConvertAll([i \in 1..Len(runs) |-> DatabricksRecord(runs[i])], "DatabricksAPIError")

\* the body of the inner loop of get_powerautomate_job_status for one run
PowerAutomateRecord(flow, run) ==
    LET last_run_time == IF HasValue(run.start_time)
                         THEN ParsedOrNone(ReplaceZ(run.start_time), FALSE)
                         ELSE Null
        duration == DurationOfTexts(run.start_time, run.end_time)
    IN  IF duration.raised THEN duration
        ELSE JobStatusRecord(<<"powerautomate", flow.id, run.run_id>>,
                             "power_automate", flow.display_name,
                             MapPowerautomateStatus(run.status).value,
                             last_run_time, duration.value, Null)

\* the records of one flow: those of its runs up to the first run that
\* raises (the handler around the flow then moves on to the next flow);
\* none when the runs could not be fetched
FlowRecords(flow) ==
    IF flow.runs_raised THEN <<>>
    ELSE LET results == [i \in 1..Len(flow.runs) |->
                            PowerAutomateRecord(flow, flow.runs[i])]
             failing == {i \in 1..Len(flow.runs) : results[i].raised}
             last == IF failing = {} THEN Len(flow.runs)
                     ELSE (CHOOSE i \in failing : \A j \in failing : i <= j) - 1
         IN  [i \in 1..last |-> results[i].value]

\* flows[:10]
FlowLimit == 10

RECURSIVE Flatten(_)
Flatten(lists) ==
    IF lists = <<>> THEN <<>> ELSE Head(lists) \o Flatten(Tail(lists))

GetPowerautomateJobStatus(flows) ==
    LET first == SubSeq(flows, 1, IF Len(flows) < FlowLimit THEN Len(flows)
                                  ELSE FlowLimit)
    IN  [raised |-> FALSE, error |-> "",
         records |-> Flatten([i \in 1..Len(first) |-> FlowRecords(first[i])])]

S_unknown == <<"u", "n", "k", "n", "o", "w", "n">>

\* the body of the loop of get_snowflake_task_status for one task;
\* started_time and completed_time are timestamp texts or datetimes
SnowflakeLastRunTime(task, accepts_z) ==
    IF ~HasValue(task.started_time) THEN Null
    ELSE IF IsDatetime(task.started_time) THEN Datetime(task.started_time.t, TRUE)
    ELSE LET parsed == FromIsoFormat(task.started_time, accepts_z)
         IN  IF parsed.raised THEN Null ELSE Datetime(parsed.value.t, TRUE)

SnowflakeDuration(task) ==
    IF HasValue(task.started_time) /\ HasValue(task.completed_time)
          /\ IsDatetime(task.started_time) /\ IsDatetime(task.completed_time)
    THEN LET duration == Subtract(task.completed_time, task.started_time)
         IN  IF duration.raised THEN Null ELSE IntOf(TotalSeconds(duration.value))
    ELSE Null

SnowflakeTaskRecord(task, accepts_z) ==
    JobStatusRecord(<<"snowflake_task", task.name,
                      IF NonZero(task.run_id) THEN task.run_id ELSE Str(S_unknown)>>,
                    "snowflake_task",
                    <<task.database_name, task.schema_name, task.name>>,
                    MapSnowflakeTaskStatus(task.state).value,
                    SnowflakeLastRunTime(task, accepts_z),
                    SnowflakeDuration(task),
                    task.error_message)

GetSnowflakeTaskStatus(task_history, accepts_z) ==
    ConvertAll([i \in 1..Len(task_history) |->
                   SnowflakeTaskRecord(task_history[i], accepts_z)],
               "SnowflakeTaskAPIError")

----------------------------------------------------------------------------
(* The persistence agent's intake of job records (store_job_records) *)

\* datetime.isoformat() that leaves the UTC offset out
IsoFormatWithoutOffset(datetime) == Iso(datetime.t, "")

\* datetime.isoformat(): an aware datetime is spelled with its UTC offset
IsoFormat(datetime) == Iso(datetime.t, IF datetime.aware THEN "+00:00" ELSE "")

\* job_data of get_airbyte_jobs: the wire dict of a record
JobData(record) ==
    [job_id |-> record.job_id,
     job_name |-> record.job_name,
     status |-> record.status,
     last_run_time |-> IF HasValue(record.last_run_time)
                       THEN IsoFormat(record.last_run_time) ELSE Null,
     duration_seconds |-> record.duration_seconds,
     error_message |-> record.error_message,
     platform |-> record.platform,
     metadata |-> record.metadata,
     checked_at |-> IsoFormat(record.checked_at)]

\* a timestamp of a record dict: parsed when it is text, else as it is
ParsedIfText(record_data, key) ==
    IF key \in DOMAIN record_data /\ IsText(record_data[key])
    THEN FromIsoFormat(ReplaceZ(record_data[key]), FALSE)
    ELSE Returned(Get(record_data, key, Null))

\* one record dict converted: last_run_time and checked_at given as text are
\* parsed first, then the record is constructed; required keys must be
\* there; metadata and checked_at are in the record when the dict has them
ConvertRecordData(record_data) ==
    LET parsed == ParsedIfText(record_data, "last_run_time")
        checked_at == ParsedIfText(record_data, "checked_at")
        made == IF ~({"job_id", "platform", "job_name", "status"} \subseteq DOMAIN record_data)
                THEN Raised("ValidationError")
                ELSE JobStatusRecord(record_data.job_id, record_data.platform,
                                     record_data.job_name, record_data.status,
                                     parsed.value,
                                     Get(record_data, "duration_seconds", Null),
                                     Get(record_data, "error_message", Null))
    IN  IF parsed.raised THEN parsed
        ELSE IF checked_at.raised THEN checked_at
        ELSE IF made.raised THEN made
        ELSE Returned(made.value
                      @@ (IF "metadata" \in DOMAIN record_data
                          THEN [metadata |-> record_data.metadata] ELSE <<>>)
                      @@ (IF "checked_at" \in DOMAIN record_data
                          THEN [checked_at |-> checked_at.value] ELSE <<>>))

\* the loop with a handler around each item, which skips the item
ConvertEach(results) ==
    LET kept == SelectSeq(results, LAMBDA r : ~r.raised)
    IN  [i \in 1..Len(kept) |-> kept[i].value]

\* Returns <<the tool's answer, the records handed to the store>>; store_raised
\* is whether the store call raises
StoreJobRecords(job_records_data, store_raised) ==
    IF job_records_data = <<>>
    THEN <<[stored_records |-> 0, message |-> "No records to store"], <<>>>>
    ELSE LET job_records == ConvertEach([i \in 1..Len(job_records_data) |->
                                                ConvertRecordData(job_records_data[i])])
         IN  IF job_records = <<>>
             THEN <<[error |-> "No valid records to store after conversion"], <<>>>>
             ELSE IF store_raised
             THEN <<[error |-> "Storage operation failed", stored_records |-> 0],
                        job_records>>
             ELSE <<[stored_records |-> Len(job_records), success |-> TRUE],
                    job_records>>

----------------------------------------------------------------------------
(* Inputs of the normalizers: raw items around one start instant, with an   *)
(* end 3.5 s after it, half a second before it and 1.5 s before it          *)

StartMs == 2000

LaterMs == 5500

JustBeforeMs == 1500

BeforeMs == 500

NativeDurationMs == 1800

\* batches of at most MaxBatch items of a set, ids given by position
Batches(Items) == UNION {[1..n -> Items] : n \in 0..MaxBatch}

WithJobIds(batch) == [i \in 1..Len(batch) |-> batch[i] @@ [job_id |-> i, run_id |-> IntOf(i)]]

StartTexts == {Null, Iso(StartMs, "Z"), Iso(StartMs, ""), NotATimestamp}

EndTexts ==
    {Null, Iso(LaterMs, "Z"), Iso(JustBeforeMs, "Z"), Iso(BeforeMs, "Z"), NotATimestamp}

AirbyteJobs ==
    {[config_name |-> Null, status |-> Upper(S_succeeded),
      started_at |-> s, ended_at |-> e] : s \in StartTexts, e \in EndTexts}

AirbyteBatches == {WithJobIds(b) : b \in Batches(AirbyteJobs)}

TerminatedSuccess ==
    [life_cycle_state |-> Str(Upper(S_terminated)), result_state |-> Str(Upper(S_success))]

DatabricksRuns ==
    {[state |-> TerminatedSuccess, start_time |-> s, end_time |-> e,
      execution_duration |-> x] :
        s \in {Null, IntOf(StartMs), IntOf(MaxDatetimeMs + 1), IntOf(MaxTimeTMs + 1)},
        e \in {Null, IntOf(LaterMs), IntOf(BeforeMs)},
        x \in {Null, IntOf(0), IntOf(NativeDurationMs)}}

\* runs that carry a state_message, under each kind of state
DatabricksRunsWithMessage ==
    {[state |-> [life_cycle_state |-> Str(Upper(l)), result_state |-> Str(Upper(r)),
                 state_message |-> Str(M_disk_full)],
      start_time |-> IntOf(StartMs), end_time |-> IntOf(LaterMs),
      execution_duration |-> Null] :
        l \in {S_terminated, S_internal_error}, r \in {S_success, S_failed}}

DatabricksBatches ==
    {WithJobIds(b) : b \in Batches(DatabricksRuns \cup DatabricksRunsWithMessage)}

PowerAutomateRuns ==
    {[status |-> S_succeeded, start_time |-> s, end_time |-> e] :
        s \in {Iso(StartMs, "Z"), NotATimestamp},
        e \in {Iso(LaterMs, "Z"), Iso(BeforeMs, "Z")}}
    \cup
    {[status |-> S_succeeded, start_time |-> Iso(StartMs, ""),
      end_time |-> Iso(LaterMs, "Z")]}

\* a flow with its runs, or with the fetch of its runs failing
FlowsNamed(id) ==
    {[id |-> id, display_name |-> <<"flow", id>>, runs_raised |-> FALSE,
      runs |-> WithJobIds(b)] : b \in Batches(PowerAutomateRuns)}
    \cup
    {[id |-> id, display_name |-> <<"flow", id>>, runs_raised |-> TRUE, runs |-> <<>>]}

PowerAutomateFlowLists ==
    {<<>>} \cup {<<f>> : f \in FlowsNamed(1)}
    \cup {<<f, g>> : f \in FlowsNamed(1), g \in FlowsNamed(2)}

SnowflakeTasks ==
    {[name |-> "load", database_name |-> "DEV", schema_name |-> "AUDIT",
      state |-> Upper(S_succeeded), error_message |-> Null,
      started_time |-> s, completed_time |-> c] :
        s \in {Null, Iso(StartMs, "Z"), Iso(StartMs, ""), NotATimestamp,
               Datetime(StartMs, FALSE)},
        c \in {Null, Iso(LaterMs, ""), Datetime(LaterMs, FALSE),
               Datetime(BeforeMs, FALSE), Datetime(LaterMs, TRUE)}}

\* tasks that carry an error_message, under each kind of state
SnowflakeTasksWithMessage ==
    {[name |-> "load", database_name |-> "DEV", schema_name |-> "AUDIT",
      state |-> Upper(state), error_message |-> Str(M_disk_full),
      started_time |-> Null, completed_time |-> Null] :
        state \in {S_succeeded, S_failed, S_skipped}}

SnowflakeTaskBatches ==
    {WithJobIds(b) : b \in Batches(SnowflakeTasks \cup SnowflakeTasksWithMessage)}

\* record dicts as the orchestrator hands them to the persistence agent
RecordData ==
    {[job_id |-> <<1>>, platform |-> "airbyte", job_name |-> <<"Job", 1>>,
      status |-> "success", last_run_time |-> t, duration_seconds |-> d] :
        t \in {Null, Iso(StartMs, "Z"), NotATimestamp},
        d \in {Null, IntOf(-1), IntOf(0), IntOf(3)}}
    \cup
    {[platform |-> "airbyte", job_name |-> <<"Job", 1>>, status |-> "success"]}

RecordDataBatches == Batches(RecordData)

----------------------------------------------------------------------------
(* The store of job records (SnowflakeDBAPIClient).  The table is a bag of  *)
(* rows; whether the database enforces the PRIMARY KEY of RECORD_ID is not  *)
(* decided by the client: it shows at the first insert of a key the table   *)
(* already holds, and stays as it showed.                                   *)

\* int(record.checked_at.timestamp()): whole seconds
EpochSeconds(checked_at) == checked_at.t \div 1000

\* f"{record.platform}_{record.job_id}_{int(record.checked_at.timestamp())}"
RecordId(record) == <<record.platform, record.job_id, EpochSeconds(record.checked_at)>>

\* row_data of one record
RowData(record) ==
    [record_id |-> RecordId(record), job_id |-> record.job_id,
     platform |-> record.platform, status |-> record.status,
     checked_at |-> record.checked_at]

\* whether the batch brings a RECORD_ID twice, or one the table holds
KeyCollision(rows, records) ==
    \/ \E i \in 1..Len(records) :
          \E row \in BagToSet(rows) : row.record_id = RecordId(records[i])
    \/ \E i, j \in 1..Len(records) :
          i # j /\ RecordId(records[i]) = RecordId(records[j])

RECURSIVE InsertAll(_, _)
\* cursor.executemany(insert_query, batch_data): a plain INSERT of each row
InsertAll(rows, records) ==
    IF records = <<>> THEN rows
    ELSE InsertAll(rows (+) SetToBag({RowData(Head(records))}), Tail(records))

\* Returns <<Returned(count) or Raised(error), the rows of the table>>;
\* connected is whether the connection and the statement go through,
\* enforced whether the database rejects a RECORD_ID it already holds
InsertJobStatusRecords(rows, records, connected, enforced) ==
    IF records = <<>> THEN <<Returned(0), rows>>
    ELSE IF ~connected \/ (enforced /\ KeyCollision(rows, records))
    THEN <<Raised("SnowflakeDBAPIError"), rows>>
    ELSE <<Returned(Len(records)), InsertAll(rows, records)>>

\* instants of two poll cycles, and one in the same second as the first
CycleMs == 2000

SameSecondMs == 2500

NextCycleMs == 3000

\* records of one job as the poll cycles check it
CheckedRecords ==
    {[platform |-> "airbyte", job_id |-> <<1>>, job_name |-> <<"Job", 1>>,
      status |-> status, checked_at |-> Datetime(t, TRUE)] :
        status \in {"success", "failed"}, t \in {CycleMs, SameSecondMs, NextCycleMs}}

CheckedBatches == Batches(CheckedRecords)

\* the summary with overall_success true as soon as one operation succeeded
CreateStorageSummaryEitherSucceeds(job_storage_result, session_storage_result) ==
    LET total_records_stored == Get(job_storage_result, "stored_records", 0)
        session_stored == Get(session_storage_result, "success", FALSE)
    IN  [storage_operation_complete |-> TRUE,
         overall_success |-> total_records_stored > 0 \/ session_stored,
         results |-> [job_records_stored |-> total_records_stored,
                      monitoring_session_stored |-> session_stored,
                      session_id |-> Get(session_storage_result, "session_id", "unknown")],
         errors |-> <<>>,
         storage_details |-> [job_storage |-> job_storage_result,
                              session_storage |-> session_storage_result]]

\* create_storage_summary(job_storage_result, session_storage_result)
CreateStorageSummary(job_storage_result, session_storage_result) ==
    LET total_records_stored == Get(job_storage_result, "stored_records", 0)
        session_stored == Get(session_storage_result, "success", FALSE)
        session_id == Get(session_storage_result, "session_id", "unknown")
        job_storage_success ==
            Get(job_storage_result, "success", FALSE) \/ total_records_stored > 0
        overall_success == job_storage_success /\ session_stored
        errors ==
            (IF Get(job_storage_result, "error", "") # ""
             THEN <<<<"Job storage", job_storage_result.error>>>> ELSE <<>>)
            \o (IF Get(session_storage_result, "error", "") # ""
                THEN <<<<"Session storage", session_storage_result.error>>>> ELSE <<>>)
    IN  [storage_operation_complete |-> TRUE,
         overall_success |-> overall_success,
         results |-> [job_records_stored |-> total_records_stored,
                      monitoring_session_stored |-> session_stored,
                      session_id |-> session_id],
         errors |-> errors,
         storage_details |-> [job_storage |-> job_storage_result,
                              session_storage |-> session_storage_result]]

\* what store_monitoring_session answers: stored, or the store raised
StoreMonitoringSession(monitoring_id, store_raised) ==
    IF store_raised
    THEN [error |-> "Monitoring session storage failed", success |-> FALSE]
    ELSE [monitoring_session_stored |-> TRUE, session_id |-> monitoring_id,
          success |-> TRUE]

\* the answers of store_job_records over the batches of record dicts
JobStorageResults ==
    {StoreJobRecords(job_records_data, store_raised)[1] :
        job_records_data \in RecordDataBatches, store_raised \in BOOLEAN}

SessionStorageResults ==
    {StoreMonitoringSession(monitoring_id, store_raised) :
        monitoring_id \in {"monitor_1", "monitor_2"}, store_raised \in BOOLEAN}

RECURSIVE AllJobRecords(_)
\* the job records store_monitoring_results collects from the platform results
AllJobRecords(all_platform_results) ==
    IF all_platform_results = <<>> THEN <<>>
    ELSE LET platform_result == Head(all_platform_results)
             rest == AllJobRecords(Tail(all_platform_results))
         IN  IF Get(platform_result, "success", FALSE)
                   /\ "monitoring_data" \in DOMAIN platform_result
                   /\ IsDict(platform_result.monitoring_data)
             THEN LET monitoring_data == platform_result.monitoring_data.val
                      jobs == Get(monitoring_data, "jobs", <<>>)
                  IN  (IF jobs = <<>> THEN Get(monitoring_data, "job_records", <<>>)
                       ELSE jobs) \o rest
             ELSE rest

\* store_monitoring_results: db_agent_raised is whether snowflake_db_agent.run
\* raised, storage_data is result.data otherwise
StoreMonitoringResults(all_platform_results, db_agent_raised, storage_data) ==
    IF db_agent_raised
    THEN [storage_success |-> FALSE, error |-> "db agent run failed"]
    ELSE [storage_success |-> TRUE, storage_data |-> storage_data,
          records_stored |-> Len(AllJobRecords(all_platform_results))]

\* run_full_monitoring_cycle: orchestrator_raised is whether
\* orchestrator_agent.run raised, monitoring_data is result.data otherwise
RunFullMonitoringCycle(monitoring_id, orchestrator_raised, monitoring_data) ==
    IF orchestrator_raised
    THEN [success |-> FALSE, monitoring_id |-> monitoring_id,
          error |-> "orchestrator run failed"]
    ELSE [success |-> TRUE, monitoring_id |-> monitoring_id,
          monitoring_data |-> monitoring_data]

\* result.data of the persistence agent: free text, or the summary its tool
\* made of the two answers
StorageAnswers(job_storage_result, session_storage_result) ==
    {StrData, DictData(CreateStorageSummary(job_storage_result, session_storage_result))}

\* platform results of a cycle: one platform with its job records, in either
\* structure, as text, or failed
CyclePlatformResults ==
    {<<[platform |-> "airbyte", success |-> TRUE,
        monitoring_data |-> DictData([total_jobs |-> Len(b), failed_jobs |-> 0,
                                      issues |-> <<>>, recommendations |-> <<>>]
                                     @@ (IF key = "jobs" THEN [jobs |-> b]
                                         ELSE [job_records |-> b]))]>> :
        b \in RecordDataBatches, key \in {"jobs", "job_records"}}
    \cup {<<[platform |-> "airbyte", success |-> TRUE, monitoring_data |-> StrData]>>,
          <<[platform |-> "airbyte", success |-> FALSE, error |-> "timeout"]>>}

\* records of every status and platform, with and without their optional
\* fields, checked by a clock with a zone or without one
WireRecords ==
    {[job_id |-> <<1>>, platform |-> platform, job_name |-> <<"Job", 1>>,
      status |-> status, last_run_time |-> last_run_time,
      duration_seconds |-> duration_seconds, error_message |-> error_message,
      metadata |-> metadata, checked_at |-> checked_at] :
        platform \in {"airbyte", "databricks", "power_automate", "snowflake_task"},
        status \in JobStatus,
        last_run_time \in {Null, Datetime(StartMs, TRUE), Datetime(StartMs, FALSE)},
        duration_seconds \in {Null, IntOf(0), IntOf(3)},
        error_message \in {Null, Str(M_disk_full)},
        metadata \in {<<>>, [config_id |-> "c1"]},
        checked_at \in {Datetime(CycleMs, TRUE), Datetime(CycleMs, FALSE)}}

NoInsert == [none |-> TRUE]

NoWire == [none |-> TRUE]

NoCycle == [none |-> TRUE]

NoStorageSummary == [none |-> TRUE]

PersistenceInit ==
    /\ db_rows = EmptyBag
    /\ db_call = NoInsert
    /\ primary_key = "not shown"
    /\ storage_results = <<>>
    /\ storage_summary = NoStorageSummary
    /\ storage_outcome = NoCycle
    /\ cycle = NoCycle
    /\ wire = NoWire

----------------------------------------------------------------------------
(* The API clients.  A credential is Str(chars) or Null.                    *)

RECURSIVE LStrip(_)
LStrip(chars) ==
    IF chars # <<>> /\ Head(chars) = " " THEN LStrip(Tail(chars)) ELSE chars

RECURSIVE RStrip(_)
RStrip(chars) ==
    IF chars # <<>> /\ chars[Len(chars)] = " "
    THEN RStrip(SubSeq(chars, 1, Len(chars) - 1)) ELSE chars

\* str.strip()
Strip(chars) == RStrip(LStrip(chars))

\* a str or None is truthy
NonEmpty(v) == ~IsNull(v) /\ v.str # <<>>

\* a constructor that takes the client credentials before the api_key
AirbyteAPIClientOAuthFirst(api_key, client_id, client_secret) ==
    IF NonEmpty(client_id) /\ NonEmpty(client_secret)
    THEN Returned([api_key |-> Null, client_id |-> Str(Strip(client_id.str)),
                   client_secret |-> Str(Strip(client_secret.str)),
                   token_expiry |-> Null, use_oauth |-> TRUE])
    ELSE IF NonEmpty(api_key) /\ Strip(api_key.str) # <<>>
    THEN Returned([api_key |-> Str(Strip(api_key.str)), client_id |-> Null,
                   client_secret |-> Null, token_expiry |-> Null, use_oauth |-> FALSE])
    ELSE Raised("ValueError")

\* AirbyteAPIClient.__init__: the client's fields, or the ValueError
AirbyteAPIClient(api_key, client_id, client_secret) ==
    IF NonEmpty(api_key) /\ Strip(api_key.str) # <<>>
    THEN Returned([api_key |-> Str(Strip(api_key.str)), client_id |-> Null,
                   client_secret |-> Null, token_expiry |-> Null, use_oauth |-> FALSE])
    ELSE IF NonEmpty(client_id) /\ NonEmpty(client_secret)
    THEN Returned([api_key |-> Null, client_id |-> Str(Strip(client_id.str)),
                   client_secret |-> Str(Strip(client_secret.str)),
                   token_expiry |-> Null, use_oauth |-> TRUE])
    ELSE Raised("ValueError")

\* a credential: not given, empty, blank, plain, padded
Credentials == {Null, Str(<<>>), Str(<<" ">>), Str(<<"k">>), Str(<<" ", "k", " ">>)}

NoClient == [none |-> TRUE]

\* largest max_retries a client is made with
MaxRetries == 2

\* max_retries is an int argument of every client
RetryLimits == (0 - 1)..MaxRetries

ClientNames == {"airbyte", "databricks", "outlook", "powerautomate"}

\* the exception class of each client
APIError(client) ==
    CASE client = "airbyte"       -> "AirbyteAPIError"
      [] client = "databricks"    -> "DatabricksAPIError"
      [] client = "outlook"       -> "OutlookAPIError"
      [] client = "powerautomate" -> "PowerAutomateAPIError"

\* what one HTTP request ends in: a response with a status code and with or
\* without content, or httpx.RequestError
HttpStatuses == {200, 202, 302, 400, 401, 403, 404, 429, 500, 503}

RequestError == [request_error |-> TRUE]

Response(status_code, content) ==
    [request_error |-> FALSE, status_code |-> status_code, content |-> content]

HttpOutcomes ==
    {RequestError} \cup {Response(c, b) : c \in HttpStatuses, b \in BOOLEAN}

\* what the token endpoint answers
TokenResponse(status_code, access_token, expires_in) ==
    [request_error |-> FALSE, status_code |-> status_code,
     access_token |-> access_token, expires_in |-> expires_in]

\* the buffer and the default of expires_in
ExpiryBufferSeconds == 60
DefaultExpiresIn == 3600

\* a lifetime one and two seconds longer than the buffer
ShortExpiresIn == 61
LongExpiresIn == 62

\* the last instant of the clock
MaxClock == 3

TokenAnswers ==
    {RequestError, TokenResponse(401, Null, Null)}
    \cup {TokenResponse(200, Str(t), x) :
            t \in {<<"t", "1">>, <<"t", "2">>},
            x \in {Null, IntOf(ShortExpiresIn), IntOf(LongExpiresIn)}}

\* attributes of the class datetime.datetime the clients use
DatetimeClassAttributes == {"now", "utcnow", "fromtimestamp", "fromisoformat"}

\* datetime.timedelta(seconds=...) after `from datetime import datetime,
\* timezone`: the name is the class, and the class has no such attribute
ClassTimedelta(now, seconds) ==
    IF "timedelta" \in DatetimeClassAttributes
    THEN Returned(IntOf(now + seconds))
    ELSE Raised("AttributeError")

\* OutlookAPIClient._get_access_token and PowerAutomateAPIClient's: the
\* result, the client's token fields after it, and whether it asked the
\* token endpoint
GetAccessToken(client, fields, now, answer) ==
    IF /\ NonEmpty(fields.access_token) /\ ~IsNull(fields.token_expires_at)
       /\ now < fields.token_expires_at.int
    THEN [result |-> Returned(fields.access_token), fields |-> fields,
          requested |-> FALSE]
    ELSE IF answer.request_error \/ answer.status_code # 200
    THEN [result |-> Raised(APIError(client)), fields |-> fields, requested |-> TRUE]
    ELSE LET expires_in == IF IsNull(answer.expires_in) THEN DefaultExpiresIn
                           ELSE answer.expires_in.int
             assigned == [fields EXCEPT !.access_token = answer.access_token]
             expiry == ClassTimedelta(now, expires_in - ExpiryBufferSeconds)
         IN  IF expiry.raised
             THEN [result |-> Raised(APIError(client)), fields |-> assigned,
                   requested |-> TRUE]
             ELSE [result |-> Returned(answer.access_token),
                   fields |-> [assigned EXCEPT !.token_expires_at = expiry.value],
                   requested |-> TRUE]

\* the token fields __init__ sets
NoToken == [access_token |-> Null, token_expires_at |-> Null]

\* AirbyteAPIClient._refresh_token: the fields after it, or AirbyteAPIError
RefreshToken(req, answered) ==
    IF ~req.use_oauth \/ ~answered
    THEN Raised(APIError("airbyte"))
    ELSE Returned([req EXCEPT !.has_token = TRUE, !.has_expiry = TRUE,
                              !.token_requests = @ + 1])

\* _make_request returns or raises
Return(req, body) == [req EXCEPT !.status = "returned", !.result = body]

Raise(req, exception) == [req EXCEPT !.status = "raised", !.result = exception]

\* continue
Continue(req) == [req EXCEPT !.attempt = @ + 1]

\* a retry that stays in the same attempt
RetryOrRaiseSameAttempt(req) ==
    IF req.attempt < req.max_retries THEN req
    ELSE Raise(req, APIError(req.client))

\* if attempt < self.max_retries: ... continue, else raise
RetryOrRaise(req) ==
    IF req.attempt < req.max_retries THEN Continue(req)
    ELSE Raise(req, APIError(req.client))

Sent(req) == [req EXCEPT !.sent = @ + 1]

\* one pass of the loop of AirbyteAPIClient._make_request
AirbyteAttempt(req, expired, token_answered, outcome, refresh_answered) ==
    IF req.attempt > req.max_retries THEN Raise(req, APIError("airbyte"))
    ELSE
    LET needs_refresh == req.use_oauth /\ (~req.has_token \/ (req.has_expiry /\ expired))
        headers == IF needs_refresh THEN RefreshToken(req, token_answered)
                   ELSE Returned(req)
    IN  IF headers.raised THEN Raise([req EXCEPT !.token_requests = @ + 1], headers.value)
        ELSE
        LET r == Sent(headers.value)
        IN  IF outcome.request_error THEN RetryOrRaise(r)
            ELSE IF outcome.status_code = 429 THEN RetryOrRaise(r)
            ELSE IF outcome.status_code = 401
            THEN IF r.use_oauth /\ r.attempt < r.max_retries
                 THEN LET refreshed == RefreshToken(r, refresh_answered)
                      IN  IF refreshed.raised
                          THEN Raise([r EXCEPT !.token_requests = @ + 1],
                                     APIError("airbyte"))
                          ELSE Continue(refreshed.value)
                 ELSE Raise(r, APIError("airbyte"))
            ELSE IF outcome.status_code \in {403, 404} THEN Raise(r, APIError("airbyte"))
            ELSE IF outcome.status_code >= 500 /\ outcome.status_code < 600
            THEN RetryOrRaise(r)
            ELSE IF outcome.status_code >= 400 /\ outcome.status_code < 500
            THEN Raise(r, APIError("airbyte"))
            ELSE IF outcome.status_code = 200 THEN Return(r, "response.json()")
            ELSE Raise(r, APIError("airbyte"))

\* one pass of the loop of DatabricksAPIClient._make_request
DatabricksAttempt(req, outcome) ==
    IF req.attempt > req.max_retries THEN Raise(req, APIError("databricks"))
    ELSE
    LET r == Sent(req)
    IN  IF outcome.request_error THEN RetryOrRaise(r)
        ELSE IF outcome.status_code = 429 THEN RetryOrRaise(r)
        ELSE IF outcome.status_code \in {401, 403, 404}
        THEN Raise(r, APIError("databricks"))
        ELSE IF outcome.status_code >= 500 /\ outcome.status_code < 600
        THEN RetryOrRaise(r)
        ELSE IF outcome.status_code >= 400 /\ outcome.status_code < 500
        THEN Raise(r, APIError("databricks"))
        ELSE IF outcome.status_code = 200 THEN Return(r, "response.json()")
        ELSE Raise(r, APIError("databricks"))

\* one pass of the loop of OutlookAPIClient._make_request and of
\* PowerAutomateAPIClient._make_request
TokenClientAttempt(req, now, token_answer, outcome) ==
    IF req.attempt > req.max_retries THEN Raise(req, APIError(req.client))
    ELSE
    LET token == GetAccessToken(req.client, req.token, now, token_answer)
        asked == [req EXCEPT !.token = token.fields,
                             !.token_requests = @ + (IF token.requested THEN 1 ELSE 0)]
    IN  IF token.result.raised THEN Raise(asked, token.result.value)
        ELSE
        LET r == Sent(asked)
        IN  IF outcome.request_error THEN RetryOrRaise(r)
            ELSE IF outcome.status_code = 429 THEN RetryOrRaise(r)
            ELSE IF outcome.status_code = 401
            THEN LET forgotten == [r EXCEPT !.token.access_token = Null]
                 IN  IF r.attempt < r.max_retries THEN Continue(forgotten)
                     ELSE Raise(forgotten, APIError(r.client))
            ELSE IF outcome.status_code >= 400 THEN Raise(r, APIError(r.client))
            ELSE IF r.client = "outlook" /\ ~outcome.content THEN Return(r, "{}")
            ELSE Return(r, "response.json()")

\* a call of _make_request before its loop
NewRequest(client, use_oauth, max_retries) ==
    [client |-> client, use_oauth |-> use_oauth, max_retries |-> max_retries,
     has_token |-> client \in {"airbyte", "databricks"} /\ ~use_oauth,
     has_expiry |-> FALSE, token |-> NoToken,
     attempt |-> 0, sent |-> 0, token_requests |-> 0,
     status |-> "running", result |-> "none"]

NoRequest == [none |-> TRUE]

NoTokenCall == [now |-> 0, called |-> FALSE]

ClientInit ==
    /\ airbyte_client = NoClient
    /\ request = NoRequest
    /\ token_client = NoClient
    /\ token_call = NoTokenCall

----------------------------------------------------------------------------
(* The orchestrator's tools as actions.  The agent calls them in the order  *)
(* of its workflow: monitor the platforms, assess, notify.                  *)

NoAssessment == [none |-> TRUE]

NoNotification == [none |-> TRUE]

NoStatus == [none |-> TRUE]

OrchestratorInit ==
    /\ platform_results = <<>>
    /\ last_collector = "none"
    /\ assessment = NoAssessment
    /\ assess_calls = 0
    /\ notify_input = NoAssessment
    /\ notification = NoNotification
    /\ email_context = NoContext

MapperInit ==
    /\ raw_status = NoStatus
    /\ mapped_status = NoStatus

NormalizerInit ==
    /\ raw_items = [none |-> TRUE]
    /\ normalized = [none |-> TRUE]
    /\ stored = [none |-> TRUE]

EmailInit ==
    /\ email_call = [none |-> TRUE]
    /\ email_response = [none |-> TRUE]
    /\ transport_calls = <<>>

SummaryInit ==
    /\ analyzed_jobs = <<>>
    /\ jobs_analysis = [none |-> TRUE]
    /\ summary_input = <<>>
    /\ health_summary = [none |-> TRUE]
    /\ health_model = [none |-> TRUE]

\* the Airbyte agent is run (its job tool calls the collector) and the result
\* is handed on to the assessor
monitor_airbyte_platform ==
    /\ assess_calls = 0
    /\ Len(platform_results) < MaxPlatforms
    /\ \E collector \in CollectorOutcomes, agent_raised \in BOOLEAN :
          \E data \in AgentAnswers(GetAirbyteJobs(collector)) :
             /\ platform_results' =
                    Append(platform_results, MonitorAirbytePlatform(agent_raised, data))
             /\ last_collector' = IF collector.raised THEN "raised" ELSE "returned"
    /\ UNCHANGED <<assessment, assess_calls, notify_input, notification, email_context>>
    /\ UNCHANGED nonOrchestratorVars

\* the result of another platform's monitoring joins the list
receive_platform_result ==
    /\ assess_calls = 0
    /\ Len(platform_results) < MaxPlatforms
    /\ \E platform_result \in SuppliedResults :
          platform_results' = Append(platform_results, platform_result)
    /\ last_collector' = "none"
    /\ UNCHANGED <<assessment, assess_calls, notify_input, notification, email_context>>
    /\ UNCHANGED nonOrchestratorVars

\* assess_calls counts 0, 1, many
assess_overall_system_health ==
    /\ notification = NoNotification
    /\ assessment' = AssessOverallSystemHealth(platform_results)
    /\ assess_calls' = IF assess_calls = 0 THEN 1 ELSE 2
    /\ UNCHANGED <<platform_results, last_collector, notify_input, notification,
                   email_context>>
    /\ UNCHANGED nonOrchestratorVars

\* one notification round ends the cycle
send_health_notifications ==
    /\ assess_calls > 0
    /\ notification = NoNotification
    /\ \E overall_assessment \in {assessment} \cup OtherAssessments,
          recipient_emails \in RecipientLists,
          email_raises \in BOOLEAN :
          LET out == SendHealthNotifications(overall_assessment, recipient_emails,
                                             email_raises)
          IN  /\ notify_input' = overall_assessment
              /\ notification' = out[1]
              /\ email_context' = out[2]
    /\ UNCHANGED <<platform_results, last_collector, assessment, assess_calls>>
    /\ UNCHANGED nonOrchestratorVars

Init ==
    /\ OrchestratorInit /\ MapperInit /\ SummaryInit /\ EmailInit /\ NormalizerInit
    /\ PersistenceInit
    /\ ClientInit

Next ==
    \/ monitor_airbyte_platform
    \/ receive_platform_result
    \/ assess_overall_system_health
    \/ send_health_notifications

Spec == Init /\ [][Next]_vars

----------------------------------------------------------------------------
(* The status mappers as actions, each on one raw status *)

map_airbyte_status ==
    \E raw \in RawStrings :
       /\ raw_status' = [platform |-> "airbyte", raw |-> Str(raw)]
       /\ mapped_status' = MapAirbyteStatus(raw)
       /\ UNCHANGED nonMapperVars

map_databricks_status ==
    \E state \in DatabricksStates :
       /\ raw_status' = [platform |-> "databricks", raw |-> state]
       /\ mapped_status' = MapDatabricksStatus(state)
       /\ UNCHANGED nonMapperVars

map_powerautomate_status ==
    \E raw \in RawStrings :
       /\ raw_status' = [platform |-> "power_automate", raw |-> Str(raw)]
       /\ mapped_status' = MapPowerautomateStatus(raw)
       /\ UNCHANGED nonMapperVars

map_snowflake_task_status ==
    \E raw \in RawStrings :
       /\ raw_status' = [platform |-> "snowflake_task", raw |-> Str(raw)]
       /\ mapped_status' = MapSnowflakeTaskStatus(raw)
       /\ UNCHANGED nonMapperVars

MapperNext ==
    \/ map_airbyte_status
    \/ map_databricks_status
    \/ map_powerautomate_status
    \/ map_snowflake_task_status

MapperSpec == Init /\ [][MapperNext]_vars

----------------------------------------------------------------------------
(* The analysis tools as actions: the agent analyses a batch of job records *)
(* and then makes the platform health summary of an analysis.               *)

NoAnalysis == [none |-> TRUE]

NoSummary == [none |-> TRUE]

NoModel == [none |-> TRUE]

\* one batch is analysed in a run of the agent
analyze_job_patterns ==
    /\ jobs_analysis = NoAnalysis
    /\ health_model = NoModel
    /\ \E jobs \in JobBatches :
          /\ analyzed_jobs' = jobs
          /\ jobs_analysis' = AnalyzeJobPatterns(jobs)
    /\ UNCHANGED <<summary_input, health_summary, health_model>>
    /\ UNCHANGED nonSummaryVars

create_platform_health_summary ==
    /\ jobs_analysis # NoAnalysis
    /\ health_summary = NoSummary
    /\ \E analysis \in {jobs_analysis} \cup SuppliedAnalyses,
          connections \in ConnectionLists :
          /\ summary_input' = <<analysis, connections>>
          /\ health_summary' = CreatePlatformHealthSummary(analysis, connections)
    /\ UNCHANGED <<analyzed_jobs, jobs_analysis, health_model>>
    /\ UNCHANGED nonSummaryVars

\* a PlatformHealthSummary object is constructed from four counts
construct_platform_health_summary ==
    /\ jobs_analysis = NoAnalysis
    /\ health_model = NoModel
    /\ \E total_jobs \in FieldValues, successful_jobs \in FieldValues,
          failed_jobs \in FieldValues, running_jobs \in FieldValues :
          health_model' = PlatformHealthSummary(total_jobs, successful_jobs,
                                                failed_jobs, running_jobs)
    /\ UNCHANGED <<analyzed_jobs, jobs_analysis, summary_input, health_summary>>
    /\ UNCHANGED nonSummaryVars

SummaryNext ==
    \/ analyze_job_patterns
    \/ create_platform_health_summary
    \/ construct_platform_health_summary

SummarySpec == Init /\ [][SummaryNext]_vars

----------------------------------------------------------------------------
(* The email agent's tool as an action *)

NoCall == [none |-> TRUE]

NoResponse == [none |-> TRUE]

\* one call of the tool is looked at
generate_monitoring_notification ==
    /\ email_call = NoCall
    /\ \E deps \in EmailDeps, monitoring_context \in MonitoringContexts,
          recipient_emails \in RecipientEmailLists,
          send_notification \in BOOLEAN, delivered \in BOOLEAN :
          LET out == GenerateMonitoringNotification(deps, monitoring_context,
                                                    recipient_emails, send_notification,
                                                    delivered)
          IN  /\ email_call' = [deps |-> deps, monitoring_context |-> monitoring_context,
                                recipient_emails |-> recipient_emails,
                                send_notification |-> send_notification]
              /\ email_response' = out[1]
              /\ transport_calls' = out[2]
              /\ UNCHANGED nonEmailVars

EmailNext == generate_monitoring_notification

EmailSpec == Init /\ [][EmailNext]_vars

----------------------------------------------------------------------------
(* The normalizers and the persistence intake as actions, one call each *)

NoItems == [none |-> TRUE]

NoRecords == [none |-> TRUE]

normalizerIdle == raw_items = NoItems /\ stored = NoRecords

get_airbyte_job_status ==
    /\ normalizerIdle
    /\ \E jobs \in AirbyteBatches :
          /\ raw_items' = [platform |-> "airbyte", items |-> jobs]
          /\ normalized' = GetAirbyteJobStatus(jobs)
    /\ UNCHANGED stored
    /\ UNCHANGED nonNormalizerVars

get_databricks_job_status ==
    /\ normalizerIdle
    /\ \E runs \in DatabricksBatches :
          /\ raw_items' = [platform |-> "databricks", items |-> runs]
          /\ normalized' = GetDatabricksJobStatus(runs)
    /\ UNCHANGED stored
    /\ UNCHANGED nonNormalizerVars

get_powerautomate_job_status ==
    /\ normalizerIdle
    /\ \E flows \in PowerAutomateFlowLists :
          /\ raw_items' = [platform |-> "power_automate", items |-> flows]
          /\ normalized' = GetPowerautomateJobStatus(flows)
    /\ UNCHANGED stored
    /\ UNCHANGED nonNormalizerVars

get_snowflake_task_status ==
    /\ normalizerIdle
    /\ \E task_history \in SnowflakeTaskBatches, accepts_z \in BOOLEAN :
          /\ raw_items' = [platform |-> "snowflake_task", items |-> task_history,
                           accepts_z |-> accepts_z]
          /\ normalized' = GetSnowflakeTaskStatus(task_history, accepts_z)
    /\ UNCHANGED stored
    /\ UNCHANGED nonNormalizerVars

store_job_records ==
    /\ normalizerIdle
    /\ \E job_records_data \in RecordDataBatches, store_raised \in BOOLEAN :
          LET out == StoreJobRecords(job_records_data, store_raised)
          IN  stored' = [input |-> job_records_data, answer |-> out[1],
                         records |-> out[2]]
    /\ UNCHANGED <<raw_items, normalized>>
    /\ UNCHANGED nonNormalizerVars

NormalizerNext ==
    \/ get_airbyte_job_status
    \/ get_databricks_job_status
    \/ get_powerautomate_job_status
    \/ get_snowflake_task_status
    \/ store_job_records

NormalizerSpec == Init /\ [][NormalizerNext]_vars

----------------------------------------------------------------------------
(* The persistence tools as actions *)

persistenceIdle ==
    /\ db_call = NoInsert
    /\ storage_summary = NoStorageSummary
    /\ storage_outcome = NoCycle
    /\ cycle = NoCycle
    /\ wire = NoWire

insert_job_status_records ==
    /\ storage_summary = NoStorageSummary /\ storage_outcome = NoCycle
    /\ cycle = NoCycle /\ wire = NoWire
    /\ \E records \in CheckedBatches, connected \in BOOLEAN, enforced \in BOOLEAN :
          LET out == InsertJobStatusRecords(db_rows, records, connected, enforced)
              shows == records # <<>> /\ connected /\ KeyCollision(db_rows, records)
          IN  /\ BagCardinality(db_rows) + Len(records) <= MaxRows
              /\ primary_key # "not shown" => enforced = (primary_key = "enforced")
              /\ primary_key' = IF shows /\ primary_key = "not shown"
                                THEN (IF enforced THEN "enforced" ELSE "not enforced")
                                ELSE primary_key
              /\ db_call' = [records |-> records, outcome |-> out[1]]
              /\ db_rows' = out[2]
    /\ UNCHANGED <<storage_results, storage_summary, cycleVars, wire>>
    /\ UNCHANGED nonPersistenceVars

create_storage_summary ==
    /\ persistenceIdle
    /\ \E job_storage_result \in JobStorageResults,
          session_storage_result \in SessionStorageResults :
          /\ storage_results' = <<job_storage_result, session_storage_result>>
          /\ storage_summary' = CreateStorageSummary(job_storage_result,
                                                     session_storage_result)
    /\ UNCHANGED <<storeVars, cycleVars, wire>>
    /\ UNCHANGED nonPersistenceVars

\* the tool alone: the persistence agent runs, its tools answer, it answers
store_monitoring_results ==
    /\ persistenceIdle
    /\ \E all_platform_results \in CyclePlatformResults,
          job_storage_result \in JobStorageResults,
          session_storage_result \in SessionStorageResults,
          db_agent_raised \in BOOLEAN :
          \E storage_data \in StorageAnswers(job_storage_result, session_storage_result) :
             storage_outcome' =
                 [job_storage |-> job_storage_result,
                  session_storage |-> session_storage_result,
                  db_agent_raised |-> db_agent_raised,
                  result |-> StoreMonitoringResults(all_platform_results,
                                                    db_agent_raised, storage_data)]
    /\ UNCHANGED <<storeVars, storage_results, storage_summary, cycle, wire>>
    /\ UNCHANGED nonPersistenceVars

\* the whole cycle: the orchestrator runs, its tools assess and store, it
\* answers with what they returned
run_full_monitoring_cycle ==
    /\ persistenceIdle
    /\ \E all_platform_results \in CyclePlatformResults,
          job_storage_result \in JobStorageResults,
          session_storage_result \in SessionStorageResults,
          db_agent_raised \in BOOLEAN, orchestrator_raised \in BOOLEAN :
          \E storage_data \in StorageAnswers(job_storage_result, session_storage_result) :
             LET overall_assessment == AssessOverallSystemHealth(all_platform_results)
                 storage_result == StoreMonitoringResults(all_platform_results,
                                                          db_agent_raised, storage_data)
             IN  cycle' =
                     [job_storage |-> job_storage_result,
                      session_storage |-> session_storage_result,
                      db_agent_raised |-> db_agent_raised,
                      assessment |-> overall_assessment,
                      records |-> AllJobRecords(all_platform_results),
                      result |-> RunFullMonitoringCycle(
                                     "monitor_1", orchestrator_raised,
                                     [assessment |-> overall_assessment,
                                      storage |-> storage_result])]
    /\ UNCHANGED <<storeVars, storage_results, storage_summary, storage_outcome, wire>>
    /\ UNCHANGED nonPersistenceVars

\* get_airbyte_jobs turns a record into its wire dict
convert_to_job_data ==
    /\ persistenceIdle
    /\ \E record \in WireRecords :
          wire' = [record |-> record, job_data |-> JobData(record)]
    /\ UNCHANGED <<storeVars, storage_results, storage_summary, cycleVars>>
    /\ UNCHANGED nonPersistenceVars

\* store_job_records parses the wire dict back
convert_record_data ==
    /\ wire # NoWire
    /\ "restored" \notin DOMAIN wire
    /\ wire' = wire @@ [restored |-> ConvertRecordData(wire.job_data)]
    /\ UNCHANGED <<storeVars, storage_results, storage_summary, cycleVars>>
    /\ UNCHANGED nonPersistenceVars

PersistenceNext ==
    \/ insert_job_status_records
    \/ create_storage_summary
    \/ store_monitoring_results
    \/ run_full_monitoring_cycle
    \/ convert_to_job_data
    \/ convert_record_data

PersistenceSpec == Init /\ [][PersistenceNext]_vars

----------------------------------------------------------------------------
(* The API clients as actions *)

create_airbyte_client ==
    /\ airbyte_client = NoClient
    /\ request = NoRequest /\ token_client = NoClient
    /\ \E api_key \in Credentials, client_id \in Credentials,
          client_secret \in Credentials :
          airbyte_client' = [api_key |-> api_key, client_id |-> client_id,
                             client_secret |-> client_secret,
                             outcome |-> AirbyteAPIClient(api_key, client_id,
                                                          client_secret)]
    /\ UNCHANGED <<request, token_client, token_call>>
    /\ UNCHANGED nonClientVars

\* _make_request is called on a client
make_request ==
    /\ request = NoRequest
    /\ airbyte_client = NoClient /\ token_client = NoClient
    /\ \E client \in ClientNames, use_oauth \in BOOLEAN, max_retries \in RetryLimits :
          /\ use_oauth => client = "airbyte"
          /\ request' = NewRequest(client, use_oauth, max_retries)
    /\ UNCHANGED <<airbyte_client, token_client, token_call>>
    /\ UNCHANGED nonClientVars

Running(client) ==
    /\ request # NoRequest
    /\ request.status = "running"
    /\ request.client = client

airbyte_make_request ==
    /\ Running("airbyte")
    /\ \E expired \in BOOLEAN, token_answered \in BOOLEAN,
          outcome \in HttpOutcomes, refresh_answered \in BOOLEAN :
          request' = AirbyteAttempt(request, expired, token_answered, outcome,
                                    refresh_answered)
    /\ UNCHANGED <<airbyte_client, token_client, token_call>>
    /\ UNCHANGED nonClientVars

databricks_make_request ==
    /\ Running("databricks")
    /\ \E outcome \in HttpOutcomes :
          request' = DatabricksAttempt(request, outcome)
    /\ UNCHANGED <<airbyte_client, token_client, token_call>>
    /\ UNCHANGED nonClientVars

outlook_make_request ==
    /\ Running("outlook")
    /\ \E now \in 0..MaxClock, token_answer \in TokenAnswers, outcome \in HttpOutcomes :
          request' = TokenClientAttempt(request, now, token_answer, outcome)
    /\ UNCHANGED <<airbyte_client, token_client, token_call>>
    /\ UNCHANGED nonClientVars

powerautomate_make_request ==
    /\ Running("powerautomate")
    /\ \E now \in 0..MaxClock, token_answer \in TokenAnswers, outcome \in HttpOutcomes :
          request' = TokenClientAttempt(request, now, token_answer, outcome)
    /\ UNCHANGED <<airbyte_client, token_client, token_call>>
    /\ UNCHANGED nonClientVars

\* OutlookAPIClient.__init__ / PowerAutomateAPIClient.__init__
create_token_client ==
    /\ token_client = NoClient
    /\ airbyte_client = NoClient /\ request = NoRequest
    /\ \E client \in {"outlook", "powerautomate"} :
          token_client' = [client |-> client, token |-> NoToken]
    /\ UNCHANGED <<airbyte_client, request, token_call>>
    /\ UNCHANGED nonClientVars

\* _get_access_token is called, now or later
get_access_token ==
    /\ token_client # NoClient
    /\ \E later \in 0..1, answer \in TokenAnswers :
          LET now == token_call.now + later
              call == GetAccessToken(token_client.client, token_client.token,
                                     now, answer)
          IN  /\ now <= MaxClock
              /\ token_client' = [token_client EXCEPT !.token = call.fields]
              /\ token_call' = [now |-> now, called |-> TRUE, answer |-> answer,
                                before |-> token_client.token,
                                result |-> call.result,
                                requested |-> call.requested]
    /\ UNCHANGED <<airbyte_client, request>>
    /\ UNCHANGED nonClientVars

ClientNext ==
    \/ create_airbyte_client
    \/ make_request
    \/ airbyte_make_request
    \/ databricks_make_request
    \/ outlook_make_request
    \/ powerautomate_make_request
    \/ create_token_client
    \/ get_access_token

ClientSpec == Init /\ [][ClientNext]_vars

\* the event loop resumes a coroutine whose awaited response or sleep is over
LiveClientSpec ==
    /\ ClientSpec
    /\ WF_vars(airbyte_make_request)
    /\ WF_vars(databricks_make_request)
    /\ WF_vars(outlook_make_request)
    /\ WF_vars(powerautomate_make_request)

----------------------------------------------------------------------------
(* Properties of the orchestrator's tools *)

MaxExtraFailed == 16

Degraded(a) == "error" \in DOMAIN a

Assessed == assess_calls > 0

Notified == notification # NoNotification

\* the three values the healthy short-circuit reads, defaults as .get gives them
HealthyAndQuiet(a) ==
    /\ Get(a, "risk_level", "LOW") = "LOW"
    /\ Get(a, "failed_jobs_count", 0) = 0
    /\ Get(a, "requires_notification", FALSE) = FALSE

\* C1: for an assessment with risk_level LOW, failed_jobs_count 0 and
\* requires_notification false, send_health_notifications does not run the
\* email agent and returns notification_sent = false; for every other
\* assessment it runs the email agent.
C1_SilenceInvariant ==
    Notified =>
        IF HealthyAndQuiet(notify_input)
        THEN email_context = NoContext /\ notification.notification_sent = FALSE
        ELSE email_context # NoContext

\* a healthy assessment of the assessor's own was passed and nothing was sent
C1_Witness ==
    /\ Notified
    /\ Len(platform_results) > 0
    /\ notify_input = assessment
    /\ HealthyAndQuiet(assessment)
    /\ email_context = NoContext

RECURSIVE SumOver(_, _, _)
SumOver(results, key, S) ==
    IF S = {} THEN 0
    ELSE LET i == CHOOSE j \in S : TRUE
         IN  Get(results[i].monitoring_data.val, key, 0) + SumOver(results, key, S \ {i})

FailedEntries(results) == {i \in 1..Len(results) : ~results[i].success}

SummaryEntries(results) ==
    {i \in 1..Len(results) : results[i].success /\ IsDict(results[i].monitoring_data)}

FailedJobsOf(results) == SumOver(results, "failed_jobs", SummaryEntries(results))

TotalJobsOf(results) == SumOver(results, "total_jobs", SummaryEntries(results))

\* the risk rule as the specification words it
RiskByRule(failed_platforms, failed_jobs, total_jobs) ==
    LET rate_below_90 ==
            total_jobs > 0 /\ (total_jobs - failed_jobs) * 100 < 90 * total_jobs
    IN  CASE failed_platforms > 1 \/ failed_jobs > 15 -> "CRITICAL"
          [] ~(failed_platforms > 1 \/ failed_jobs > 15)
             /\ (failed_platforms = 1 \/ failed_jobs > 8) -> "HIGH"
          [] ~(failed_platforms > 1 \/ failed_jobs > 15)
             /\ ~(failed_platforms = 1 \/ failed_jobs > 8)
             /\ (failed_jobs > 3 \/ rate_below_90) -> "MEDIUM"
          [] OTHER -> "LOW"

\* C2: for every list of platform results the assessor's risk_level is the
\* first match of: failed_platforms > 1 or failed_jobs > 15: CRITICAL;
\* failed_platforms = 1 or failed_jobs > 8: HIGH; failed_jobs > 3 or
\* success_rate < 90: MEDIUM; else LOW (jobs summed over successful results,
\* success_rate 100 when there are no jobs).
C2_RiskRule ==
    Assessed =>
        assessment.risk_level =
            RiskByRule(Cardinality(FailedEntries(platform_results)),
                       FailedJobsOf(platform_results),
                       TotalJobsOf(platform_results))

\* C3: requires_notification is true exactly when risk_level is HIGH or
\* CRITICAL or the summed failed_jobs exceeds 5; with no failed platform and
\* at most 5 failed jobs it is false.
C3_RequiresNotification ==
    Assessed =>
        /\ assessment.requires_notification <=>
              (assessment.risk_level \in {"HIGH", "CRITICAL"}
               \/ FailedJobsOf(platform_results) > 5)
        /\ (FailedEntries(platform_results) = {}
            /\ FailedJobsOf(platform_results) <= 5)
              => ~assessment.requires_notification

RiskRank(risk_level) ==
    CASE risk_level = "LOW" -> 0
      [] risk_level = "MEDIUM" -> 1
      [] risk_level = "HIGH" -> 2
      [] risk_level = "CRITICAL" -> 3

\* <<i, m>>: platform i reports m more failed jobs among the same total
MoreFailures(results) ==
    {im \in SummaryEntries(results) \X (1..MaxExtraFailed) :
        LET md == results[im[1]].monitoring_data.val
        IN  /\ {"failed_jobs", "total_jobs"} \subseteq DOMAIN md
            /\ md.failed_jobs + im[2] <= md.total_jobs}

WithMoreFailures(results, i, m) ==
    [results EXCEPT ![i].monitoring_data.val.failed_jobs = @ + m]

\* C4: of two inputs that differ only in a larger failed-job count of one
\* platform, the one with more failed jobs never gets the lower risk_level
\* (LOW < MEDIUM < HIGH < CRITICAL).
C4_RiskMonotonicity ==
    (assess_calls = 1 /\ ~Notified) =>
        \A im \in MoreFailures(platform_results) :
            RiskRank(AssessOverallSystemHealth(
                        WithMoreFailures(platform_results, im[1], im[2])).risk_level)
                >= RiskRank(assessment.risk_level)

\* a LOW input that more failures on one platform lift to CRITICAL
C4_Witness ==
    /\ assess_calls = 1
    /\ assessment.risk_level = "LOW"
    /\ \E im \in MoreFailures(platform_results) :
          AssessOverallSystemHealth(
              WithMoreFailures(platform_results, im[1], im[2])).risk_level = "CRITICAL"

\* C5: with at least one failed platform the risk_level is HIGH or CRITICAL
\* and requires_notification is true, whatever the successful platforms report.
C5_FailedPlatformIsHigh ==
    (Assessed /\ FailedEntries(platform_results) # {}) =>
        /\ assessment.risk_level \in {"HIGH", "CRITICAL"}
        /\ assessment.requires_notification

\* one platform failed, the other reports jobs that all succeeded
C5_Witness ==
    /\ Assessed
    /\ Cardinality(FailedEntries(platform_results)) = 1
    /\ \E i \in SummaryEntries(platform_results) :
          LET md == platform_results[i].monitoring_data.val
          IN  Get(md, "total_jobs", 0) > 0 /\ Get(md, "failed_jobs", 0) = 0
    /\ assessment.risk_level = "HIGH"
    /\ assessment.failed_platforms = 1

\* C6: a platform whose collector call raised reaches the assessor as a
\* failed entry (success = false, counted in failed_platforms).
C6_CollectorFailureIsFailedPlatform ==
    last_collector = "raised" =>
        /\ ~platform_results[Len(platform_results)].success
        /\ Assessed => assessment.failed_platforms >= 1

\* C7: when the assessment itself fails the assessor returns the degraded
\* assessment (MEDIUM, "Unknown - Assessment failed", requires_notification
\* true), and send_health_notifications given it runs the email agent.
C7_DegradedForcesNotification ==
    /\ (Assessed /\ Len(platform_results) = 0) =>
          /\ Degraded(assessment)
          /\ assessment.risk_level = "MEDIUM"
          /\ assessment.overall_health = "Unknown - Assessment failed"
          /\ assessment.requires_notification
    /\ (Notified /\ notify_input = assessment /\ Len(platform_results) = 0) =>
          email_context # NoContext

\* the degraded assessment was passed on and the email agent ran
C7_Witness ==
    /\ Assessed
    /\ Degraded(assessment)
    /\ Notified
    /\ notify_input = assessment
    /\ email_context # NoContext
    /\ email_context.risk_level = "MEDIUM"

SameVerdict(a, b) ==
    /\ a.risk_level = b.risk_level
    /\ a.requires_notification = b.requires_notification
    /\ DOMAIN a = DOMAIN b
    /\ \A k \in DOMAIN a \cap {"jobs_analyzed", "failed_jobs_count"} : a[k] = b[k]
    /\ \A k \in DOMAIN a \cap {"critical_issues", "recommendations"} :
          SeqToSet(a[k]) = SeqToSet(b[k])

NoDuplicates(xs) == \A i, j \in 1..Len(xs) : xs[i] = xs[j] => i = j

ExpectedIssues(results) ==
    UNION {SeqToSet(Get(results[i].monitoring_data.val, "issues", <<>>)) :
              i \in SummaryEntries(results)}
    \cup {FailedJobsIssue(Get(results[i], "platform", "unknown"),
                          results[i].monitoring_data.val.failed_jobs) :
              i \in {j \in SummaryEntries(results) :
                        Get(results[j].monitoring_data.val, "failed_jobs", 0) > 5}}
    \cup {MonitoringFailedIssue(Get(results[i], "platform", "unknown"),
                                Get(results[i], "error", "Unknown error")) :
              i \in FailedEntries(results)}

ExpectedRecommendations(results) ==
    UNION {SeqToSet(Get(results[i].monitoring_data.val, "recommendations", <<>>)) :
              i \in SummaryEntries(results)}

\* C9: critical_issues and recommendations hold no duplicates and are, as
\* sets, the union of the successful platforms' issues / recommendations,
\* one "has n failed jobs" entry per successful platform with more than 5
\* failed jobs and one "monitoring failed" entry per failed platform.
C9_IssuesAreTheUnion ==
    Assessed =>
        LET issues == Get(assessment, "critical_issues", <<>>)
            recommendations == Get(assessment, "recommendations", <<>>)
        IN  /\ NoDuplicates(issues)
            /\ NoDuplicates(recommendations)
            /\ SeqToSet(issues) = ExpectedIssues(platform_results)
            /\ SeqToSet(recommendations) = ExpectedRecommendations(platform_results)

\* all three kinds of issue are there and repeated ones were folded
C9_Witness ==
    /\ Assessed
    /\ ~Degraded(assessment)
    /\ {x.kind : x \in SeqToSet(assessment.critical_issues)} =
          {"text", "has_failed_jobs", "monitoring_failed"}
    /\ Len(ProcessPlatformResults(platform_results, InitialCounters).critical_issues)
          > Len(assessment.critical_issues)
    /\ Len(ProcessPlatformResults(platform_results, InitialCounters).all_recommendations)
          > Len(assessment.recommendations)

----------------------------------------------------------------------------
(* Properties of the status mappers *)

\* C10: for each platform and every raw status (empty, any letter case,
\* unrecognised, and for Databricks any pair with an absent or null
\* result_state) the mapper returns one of the six statuses and never raises.
C10_MappingIsTotal ==
    mapped_status # NoStatus =>
        /\ ~mapped_status.raised
        /\ mapped_status.value \in JobStatus

----------------------------------------------------------------------------
(* Properties of the Airbyte agent's analysis tools *)

Summarised == health_summary # NoSummary /\ ~HasError(health_summary)

\* the class a platform status text opens with
StatusClass(platform_status) ==
    CASE platform_status = "Excellent - All systems operational" -> "Excellent"
      [] platform_status = "Good - Minor issues detected" -> "Good"
      [] platform_status = "Fair - Some issues need attention" -> "Fair"
      [] platform_status = "Poor - Multiple issues detected" -> "Poor"
      [] platform_status = "Critical - Major failures detected" -> "Critical"
      [] OTHER -> "none"

\* the class by the thresholds, strictest first; rates in hundredths
ClassByThresholds(success_rate, failed_jobs) ==
    LET excellent == success_rate >= 9500 /\ failed_jobs = 0
        good == success_rate >= 8500 /\ failed_jobs <= 2
        fair == success_rate >= 7000 /\ failed_jobs <= 5
        poor == success_rate >= 5000
    IN  CASE excellent -> "Excellent"
          [] ~excellent /\ good -> "Good"
          [] ~excellent /\ ~good /\ fair -> "Fair"
          [] ~excellent /\ ~good /\ ~fair /\ poor -> "Poor"
          [] OTHER -> "Critical"

RiskOfClass(class) ==
    CASE class = "Excellent" -> "LOW"
      [] class = "Good" -> "LOW"
      [] class = "Fair" -> "MEDIUM"
      [] class = "Poor" -> "HIGH"
      [] OTHER -> "CRITICAL"

\* C12: create_platform_health_summary classifies by the first matching
\* threshold, strictest first (>=95 and 0 failed: Excellent; >=85 and <=2
\* failed: Good; >=70 and <=5 failed: Fair; >=50: Poor; otherwise Critical),
\* and the risk label of the class is LOW, LOW, MEDIUM, HIGH, CRITICAL.
C12_FirstMatchingThreshold ==
    Summarised =>
        LET class == ClassByThresholds(Get(summary_input[1], "success_rate", 0),
                                       Get(summary_input[1], "failed_jobs", 0))
        IN  /\ StatusClass(health_summary.platform_status) = class
            /\ health_summary.risk_level = RiskOfClass(class)

\* a summary of class Good whose analysis also meets the Fair thresholds and,
\* but for its failed jobs, the Excellent rate
C12_Witness ==
    /\ Summarised
    /\ summary_input[1] = jobs_analysis
    /\ health_summary.platform_status = "Good - Minor issues detected"
    /\ health_summary.success_rate >= 9500
    /\ health_summary.failed_jobs = 1

JobIssueKinds == {"high_failed_jobs", "low_success_rate"}

\* C13: when the batch of job records is empty (total == 0) the analysis is
\* not an error, and the summary made of it has success_rate 100, is
\* Excellent and carries no job-related issue.
C13_EmptyBatchIsHealthy ==
    (jobs_analysis # NoAnalysis /\ analyzed_jobs = <<>>) =>
        /\ ~HasError(jobs_analysis)
        /\ (health_summary # NoSummary /\ summary_input[1] = jobs_analysis
               /\ ~HasErrorEntry(summary_input[2])) =>
              /\ ~HasError(health_summary)
              /\ health_summary.success_rate = 10000
              /\ StatusClass(health_summary.platform_status) = "Excellent"
              /\ \A i \in 1..Len(health_summary.issues) :
                     health_summary.issues[i].kind \notin JobIssueKinds

\* the rate bounds on exact fractions
FractionInPercentRange(rate) == 0 <= rate.num /\ rate.num <= 100 * rate.den

FractionsSumTo100(a, b) == a.num * b.den + b.num * a.den = 100 * a.den * b.den

\* C14: every PlatformHealthSummary object constructed, and every analysis
\* aggregated from job records, has 0 <= success_rate <= 100, has
\* success_rate + failure_rate = 100 when total_jobs > 0, and has both rates
\* 0 when total_jobs = 0.
C14_RateBounds ==
    /\ (health_model # NoModel /\ health_model # ValidationError) =>
          /\ FractionInPercentRange(health_model.success_rate)
          /\ health_model.total_jobs > 0 =>
                 FractionsSumTo100(health_model.success_rate, health_model.failure_rate)
          /\ health_model.total_jobs = 0 =>
                 /\ health_model.success_rate.num = 0
                 /\ health_model.failure_rate.num = 0
    /\ (jobs_analysis # NoAnalysis /\ ~HasError(jobs_analysis)) =>
          /\ 0 <= jobs_analysis.success_rate /\ jobs_analysis.success_rate <= 10000
          /\ jobs_analysis.total_jobs > 0 =>
                 jobs_analysis.success_rate + jobs_analysis.failure_rate = 10000
          /\ jobs_analysis.total_jobs = 0 =>
                 /\ jobs_analysis.success_rate = 0
                 /\ jobs_analysis.failure_rate = 0

----------------------------------------------------------------------------
(* Properties of the email agent's notification tool *)

Generated == email_response # NoResponse /\ ~HasError(email_response)

\* C15: the template and the priority are selected by first match: risk_level
\* CRITICAL or more than 10 failed jobs gives critical_alert with urgent; else
\* risk_level HIGH or more than 5 failed jobs gives warning_alert with high;
\* else info_summary with normal; the notification handed to the transport
\* carries that priority.
C15_TemplateSelection ==
    Generated =>
        LET risk_level == Get(email_call.monitoring_context, "risk_level", "LOW")
            failed_jobs == Get(email_call.monitoring_context, "failed_jobs_count", 0)
            expected ==
                CASE risk_level = "CRITICAL" \/ failed_jobs > 10 ->
                         <<"critical_alert", "urgent">>
                  [] ~(risk_level = "CRITICAL" \/ failed_jobs > 10)
                        /\ (risk_level = "HIGH" \/ failed_jobs > 5) ->
                         <<"warning_alert", "high">>
                  [] OTHER -> <<"info_summary", "normal">>
        IN  /\ email_response.template_used = expected[1]
            /\ email_response.priority = expected[2]
            /\ email_response.subject.template = expected[1]
            /\ \A i \in 1..Len(transport_calls) :
                   transport_calls[i].notification.priority = expected[2]

\* a notification sent for a LOW risk with 6 failed jobs: only the second
\* rule's failed-job threshold selects the template
C15_Witness ==
    /\ Generated
    /\ Get(email_call.monitoring_context, "risk_level", "LOW") = "LOW"
    /\ Get(email_call.monitoring_context, "failed_jobs_count", 0) = 6
    /\ email_response.template_used = "warning_alert"
    /\ Len(transport_calls) = 1
    /\ transport_calls[1].operation = "send"

AddressConfigured == Truthy(email_call.deps.from_email)

\* the response reports a successful preview and nothing else
PreviewOnlyOutcome ==
    /\ ~HasError(email_response)
    /\ email_response.notification_generated
    /\ IF email_call.send_notification
       THEN /\ email_response.send_result.success
            /\ email_response.send_result.message_id = PreviewResult.message_id
            /\ IsNull(email_response.send_result.error)
       ELSE email_response.send_result.action = "preview_only"

\* with an address configured: a send only on request, otherwise only a draft
SendsOnlyOnRequest ==
    \A i \in 1..Len(transport_calls) :
       /\ transport_calls[i].operation = "send" => email_call.send_notification
       /\ ~email_call.send_notification => transport_calls[i].operation = "draft"

RecipientsWellFormed ==
    \A i \in 1..Len(email_call.recipient_emails) :
       IsEmail(email_call.recipient_emails[i])

\* C16 as stated: without a configured address the transport is never called
\* and the outcome is a successful preview, not an error; with an address
\* the notification is sent only if send_notification is true and is
\* otherwise only drafted.
C16_PreviewOnlyWithoutAddress ==
    email_call # NoCall =>
        /\ ~AddressConfigured => (transport_calls = <<>> /\ PreviewOnlyOutcome)
        /\ AddressConfigured => SendsOnlyOnRequest

\* C16 amended: the same, the successful preview being promised only to a call
\* whose recipients are all well-formed e-mail addresses (a malformed one
\* fails the validation of EmailRecipient and the call returns an error).
C16_PreviewOnlyForValidRecipients ==
    email_call # NoCall =>
        /\ ~AddressConfigured =>
              /\ transport_calls = <<>>
              /\ RecipientsWellFormed => PreviewOnlyOutcome
        /\ AddressConfigured => SendsOnlyOnRequest

\* a send was asked for without a configured address and ended as a preview
C16_Witness ==
    /\ email_call # NoCall
    /\ ~AddressConfigured
    /\ email_call.send_notification
    /\ email_call.recipient_emails # <<>>
    /\ PreviewOnlyOutcome

----------------------------------------------------------------------------
(* Properties of the normalizers *)

Normalized == raw_items # NoItems

\* the raw runs of a call, flows taken apart
RawRuns ==
    IF raw_items.platform = "power_automate"
    THEN UNION {SeqToSet(raw_items.items[i].runs) : i \in 1..Len(raw_items.items)}
    ELSE SeqToSet(raw_items.items)

NumberOfRawRuns ==
    IF raw_items.platform = "power_automate"
    THEN Len(Flatten([i \in 1..Len(raw_items.items) |-> raw_items.items[i].runs]))
    ELSE Len(raw_items.items)

\* the raw run a record was made of, found by the ids in the record's job_id
RunOfRecord(record) ==
    CASE raw_items.platform = "airbyte" -> raw_items.items[record.job_id[1]]
      [] raw_items.platform = "databricks" -> raw_items.items[record.job_id[2]]
      [] raw_items.platform = "snowflake_task" -> raw_items.items[record.job_id[3].int]
      [] raw_items.platform = "power_automate" ->
            raw_items.items[record.job_id[2]].runs[record.job_id[3].int]

StartOf(run) ==
    CASE raw_items.platform = "airbyte" -> run.started_at
      [] raw_items.platform = "snowflake_task" -> run.started_time
      [] OTHER -> run.start_time

EndOf(run) ==
    CASE raw_items.platform = "airbyte" -> run.ended_at
      [] raw_items.platform = "snowflake_task" -> run.completed_time
      [] OTHER -> run.end_time

\* the instant a raw timestamp tells, IntOf(ms), or Null when it is missing
\* or cannot be parsed
InstantOf(timestamp) ==
    IF IsNull(timestamp) THEN Null
    ELSE IF IsDatetime(timestamp) THEN IntOf(timestamp.t)
    ELSE IF IsText(timestamp)
    THEN (IF ~timestamp.iso THEN Null
          ELSE IF raw_items.platform = "snowflake_task" /\ timestamp.zone = "Z"
                  /\ ~raw_items.accepts_z THEN Null
          ELSE IntOf(timestamp.t))
    ELSE IF timestamp.int > MaxDatetimeMs THEN Null
    ELSE timestamp

Unparsable(timestamp) == ~IsNull(timestamp) /\ IsNull(InstantOf(timestamp))

\* whether a raw run converts when it is normalized alone
ConvertsAlone(run) ==
    CASE raw_items.platform = "airbyte" -> ~AirbyteRecord(run).raised
      [] raw_items.platform = "databricks" -> ~DatabricksRecord(run).raised
      [] raw_items.platform = "snowflake_task" ->
            ~SnowflakeTaskRecord(run, raw_items.accepts_z).raised
      [] raw_items.platform = "power_automate" ->
            ~PowerAutomateRecord([id |-> 1, display_name |-> <<"flow", 1>>], run).raised

StartKey ==
    CASE raw_items.platform = "airbyte" -> "started_at"
      [] raw_items.platform = "snowflake_task" -> "started_time"
      [] OTHER -> "start_time"

\* a raw run is well-formed but for its start when it converts alone, or its
\* start cannot be parsed and it converts alone once the start is left out
WellFormedButForStart(run) ==
    IF Unparsable(StartOf(run))
    THEN ConvertsAlone([run EXCEPT ![StartKey] = Null])
    ELSE ConvertsAlone(run)

\* C17: for every normalizer, a batch of n items that are well-formed but for
\* start timestamps that cannot be parsed returns n records and raises
\* nothing, and the record of an item with such a start has last_run_time
\* null.
C17_UnparsableStartKeepsRecord ==
    (Normalized /\ \A run \in RawRuns : WellFormedButForStart(run)
                /\ \A i \in 1..Len(raw_items.items) :
                      ~Get(raw_items.items[i], "runs_raised", FALSE)) =>
        /\ ~normalized.raised
        /\ Len(normalized.records) = NumberOfRawRuns
        /\ \A i \in 1..Len(normalized.records) :
               Unparsable(StartOf(RunOfRecord(normalized.records[i])))
                   => IsNull(normalized.records[i].last_run_time)

\* C18: batch conversion is best effort: the call never raises, an item
\* that fails conversion is skipped, and every other item of the batch is
\* returned.
C18_BestEffortBatch ==
    Normalized =>
        /\ ~normalized.raised
        /\ {RunOfRecord(normalized.records[i]) : i \in 1..Len(normalized.records)}
               = {run \in RawRuns : ConvertsAlone(run)}

AllRecords ==
    (IF Normalized THEN SeqToSet(normalized.records) ELSE {})
    \cup (IF stored # NoRecords THEN SeqToSet(stored.records) ELSE {})

\* C19: every record a normalizer produces or the persistence intake accepts
\* has duration_seconds null or >= 0, also when the end reported is earlier
\* than the start.
C19_DurationNonNegative ==
    \A record \in AllRecords :
       IsNull(record.duration_seconds) \/ record.duration_seconds.int >= 0

\* a record made of a run that ended half a second before it started, and a
\* store that was handed a record and refused another for its duration
C19_Witness ==
    \/ /\ Normalized
       /\ \E i \in 1..Len(normalized.records) :
             LET run == RunOfRecord(normalized.records[i])
             IN  /\ ~IsNull(InstantOf(StartOf(run)))
                 /\ ~IsNull(InstantOf(EndOf(run)))
                 /\ InstantOf(EndOf(run)).int < InstantOf(StartOf(run)).int
                 /\ normalized.records[i].duration_seconds = IntOf(0)
    \/ /\ stored # NoRecords
       /\ Len(stored.records) = 1
       /\ \E i \in 1..Len(stored.input) :
             Get(stored.input[i], "duration_seconds", Null) = IntOf(-1)

\* the platform-native duration of a run, if it carries one
NativeDurationOf(run) == Get(run, "execution_duration", Null)

\* the duration by the rule: native, else end - start, else null; whole
\* seconds truncated toward zero
DurationByRule(run) ==
    LET start == InstantOf(StartOf(run))
        end == InstantOf(EndOf(run))
    IN  IF ~IsNull(NativeDurationOf(run))
        THEN IntOf(TotalSeconds(NativeDurationOf(run).int))
        ELSE IF ~IsNull(start) /\ ~IsNull(end)
        THEN IntOf(TotalSeconds(end.int - start.int))
        ELSE Null

\* C20: the duration of a record is the platform-native duration whenever
\* the run carries one, otherwise end - start when both are known,
\* otherwise null, in whole seconds truncated toward zero.
C20_DurationDerivation ==
    (Normalized /\ ~normalized.raised) =>
        \A i \in 1..Len(normalized.records) :
           normalized.records[i].duration_seconds
               = DurationByRule(RunOfRecord(normalized.records[i]))

\* C21: in every normalized record of every platform, error_message is
\* non-null only if status is failed, whatever error field the raw payload
\* has.
C21_ErrorMessageOnlyWhenFailed ==
    (Normalized /\ ~normalized.raised) =>
        \A i \in 1..Len(normalized.records) :
           ~IsNull(normalized.records[i].error_message)
               => normalized.records[i].status = "failed"

\* C22: the job_id of every normalized record starts with its platform's
\* enum value, followed by the native id (and the run id where the platform
\* has runs), and no two records of a call have the same job_id.
C22_JobIdIsPrefixedAndUnique ==
    (Normalized /\ ~normalized.raised) =>
        /\ \A i \in 1..Len(normalized.records) :
              LET record == normalized.records[i]
              IN  /\ Len(record.job_id) >= 2
                  /\ record.job_id[1] = record.platform
        /\ \A i, j \in 1..Len(normalized.records) :
              i # j => normalized.records[i].job_id # normalized.records[j].job_id

----------------------------------------------------------------------------
(* Properties of the persistence tools *)

\* the batch of the step's insert holds only rows the table already has
SameBatchAgain ==
    /\ db_call' # NoInsert
    /\ db_call'.records # <<>>
    /\ \A i \in 1..Len(db_call'.records) :
          RowData(db_call'.records[i]) \in BagToSet(db_rows)

\* rows of one job from distinct poll cycles have distinct keys
DistinctCyclesDistinctKeys ==
    \A row, other \in BagToSet(db_rows) :
       (row.platform = other.platform /\ row.job_id = other.job_id
            /\ row.checked_at # other.checked_at)
           => row.record_id # other.record_id

\* C23: persistence is idempotent per record key: persisting a batch whose
\* rows the store already holds leaves the store with the same rows (no
\* duplicate row), and two records of one job_id with different checked_at
\* get distinct keys.
C23_IdempotentPerRecordKey ==
    /\ [][SameBatchAgain => db_rows' = db_rows]_persistenceVars
    /\ []DistinctCyclesDistinctKeys

Summarized == storage_summary # NoStorageSummary

JobStorageSucceeded == Get(storage_results[1], "success", FALSE)

SessionStorageSucceeded == Get(storage_results[2], "success", FALSE)

\* C24: for each combination of success and failure of the job-record batch
\* and of the session record, the storage summary reports each sub-result
\* with its own success and error, neither hidden behind the other, and
\* overall_success is true exactly when both operations succeeded.
C24_SummaryReportsBothResults ==
    Summarized =>
        /\ storage_summary.overall_success
               = (JobStorageSucceeded /\ SessionStorageSucceeded)
        /\ (storage_summary.results.job_records_stored > 0) = JobStorageSucceeded
        /\ storage_summary.results.monitoring_session_stored = SessionStorageSucceeded
        /\ storage_summary.storage_details.job_storage = storage_results[1]
        /\ storage_summary.storage_details.session_storage = storage_results[2]
        /\ SeqToSet(storage_summary.errors)
               = (IF "error" \in DOMAIN storage_results[1]
                  THEN {<<"Job storage", storage_results[1].error>>} ELSE {})
                 \cup (IF "error" \in DOMAIN storage_results[2]
                       THEN {<<"Session storage", storage_results[2].error>>} ELSE {})

\* a summary of a stored batch with a failed session, and one of a failed
\* batch with a stored session
C24_Witness ==
    /\ Summarized
    /\ JobStorageSucceeded /\ ~SessionStorageSucceeded
    /\ ~storage_summary.overall_success
    /\ Len(storage_summary.errors) = 1

\* persistence failed: a storage tool answered with an error, or the
\* persistence agent's run raised
PersistenceFailed(run) ==
    \/ "error" \in DOMAIN run.job_storage
    \/ "error" \in DOMAIN run.session_storage
    \/ run.db_agent_raised

\* C25: when persistence fails, of the record batch or of the session
\* record, the result of store_monitoring_results and the top-level result
\* of the monitoring cycle are marked failed, and the cycle still returns
\* the assessment and the records it computed.
C25_FailedStoreFailsTheCycle ==
    /\ (storage_outcome # NoCycle /\ PersistenceFailed(storage_outcome))
           => ~storage_outcome.result.storage_success
    /\ (cycle # NoCycle /\ PersistenceFailed(cycle)) =>
           /\ ~cycle.result.success
           /\ "monitoring_data" \in DOMAIN cycle.result
           /\ cycle.result.monitoring_data.assessment = cycle.assessment

RoundTripped == wire # NoWire /\ "restored" \in DOMAIN wire

\* C26: serializing a JobStatusRecord to the wire dictionary, as
\* get_airbyte_jobs does, and parsing it back, as store_job_records does,
\* gives a record equal to the first in all its nine fields, for every
\* status and platform and for null optional fields.
C26_WireRoundTrip ==
    RoundTripped =>
        /\ ~wire.restored.raised
        /\ wire.restored.value = wire.record

\* a failed record with an aware last_run_time and all optional fields set
\* came back
C26_Witness ==
    /\ RoundTripped
    /\ wire.record.status = "failed"
    /\ wire.record.last_run_time = Datetime(StartMs, TRUE)
    /\ wire.record.duration_seconds = IntOf(3)
    /\ wire.record.metadata # <<>>
    /\ ~wire.restored.raised

----------------------------------------------------------------------------
(* Properties of the API clients *)

Constructed == airbyte_client # NoClient

\* a credential with a character that is not a space
NonBlank(credential) ==
    ~IsNull(credential) /\ \E i \in 1..Len(credential.str) : credential.str[i] # " "

\* a credential that is there and not empty
Given(credential) == ~IsNull(credential) /\ Len(credential.str) > 0

\* C27: AirbyteAPIClient with a non-blank api_key is in static-key mode
\* (use_oauth false) whatever client credentials it is given; otherwise with
\* both client_id and client_secret it is in OAuth mode (use_oauth true);
\* every other combination raises ValueError and creates no client.
C27_ClientConstruction ==
    Constructed =>
        LET outcome == airbyte_client.outcome
        IN  IF NonBlank(airbyte_client.api_key)
            THEN ~outcome.raised /\ ~outcome.value.use_oauth
                 /\ NonBlank(outcome.value.api_key)
            ELSE IF Given(airbyte_client.client_id) /\ Given(airbyte_client.client_secret)
            THEN ~outcome.raised /\ outcome.value.use_oauth
                 /\ IsNull(outcome.value.api_key)
            ELSE outcome.raised /\ outcome.value = "ValueError"

\* a client made of a padded api_key together with both client credentials
C27_Witness ==
    /\ Constructed
    /\ airbyte_client.api_key = Str(<<" ", "k", " ">>)
    /\ NonBlank(airbyte_client.client_id) /\ NonBlank(airbyte_client.client_secret)
    /\ ~airbyte_client.outcome.raised
    /\ airbyte_client.outcome.value.api_key = Str(<<"k">>)

Called == request # NoRequest

Finished == Called /\ request.status # "running"

\* _make_request ended by returning the body or by raising the client's error
EndedAsDocumented ==
    \/ request.status = "returned" /\ request.result \in {"response.json()", "{}"}
    \/ request.status = "raised" /\ request.result = APIError(request.client)

CacheWasValid ==
    /\ NonEmpty(token_call.before.access_token)
    /\ ~IsNull(token_call.before.token_expires_at)
    /\ token_call.now < token_call.before.token_expires_at.int

\* the cached token had expired at the last call
CacheHadExpired ==
    /\ ~IsNull(token_call.before.token_expires_at)
    /\ token_call.now >= token_call.before.token_expires_at.int

\* the token endpoint was asked and answered 200 with an access_token
TokenGranted ==
    /\ token_call.requested
    /\ ~token_call.answer.request_error
    /\ token_call.answer.status_code = 200

GrantedLifetime ==
    IF IsNull(token_call.answer.expires_in) THEN DefaultExpiresIn
    ELSE token_call.answer.expires_in.int

\* C29: in OutlookAPIClient and PowerAutomateAPIClient, when the token
\* endpoint answers 200 with an access_token, _get_access_token returns that
\* token and caches it with an expiry 60 seconds before expires_in; a later
\* call before that expiry returns the cached token without a token request,
\* and a call at or after the expiry requests a new one.
C29_TokenReturnedAndCached ==
    token_call.called =>
        /\ TokenGranted =>
              /\ token_call.result = Returned(token_call.answer.access_token)
              /\ token_client.token.access_token = token_call.answer.access_token
              /\ token_client.token.token_expires_at =
                     IntOf(token_call.now + GrantedLifetime - ExpiryBufferSeconds)
        /\ CacheWasValid =>
              /\ ~token_call.requested
              /\ token_call.result = Returned(token_call.before.access_token)
        /\ CacheHadExpired => token_call.requested

----------------------------------------------------------------------------
(* The assessor and the renderer *)

\* the template generate_monitoring_notification selects for the context
\* send_health_notifications makes of an assessment
TemplateFor(overall_assessment) ==
    LET monitoring_context == MonitoringContext(overall_assessment)
    IN  SelectTemplate(monitoring_context.risk_level,
                       monitoring_context.failed_jobs_count).template_key

\* C30: for every assessment assess_overall_system_health returns with
\* requires_notification true, the degraded assessment included,
\* generate_monitoring_notification given its risk_level and
\* failed_jobs_count selects critical_alert or warning_alert, never
\* info_summary.
C30_AssessorAndRendererAgree ==
    (assessment # NoAssessment /\ assessment.requires_notification) =>
        TemplateFor(assessment) \in {"critical_alert", "warning_alert"}

----------------------------------------------------------------------------
(* More properties of the status mappers *)

\* the lifecycle states of a run that has ended; every other one is in flight
TerminalLifeCycles == {S_terminated, S_internal_error, S_skipped}

\* a Databricks state was mapped and both of its values are strings
DatabricksMapped ==
    /\ raw_status # NoStatus
    /\ raw_status.platform = "databricks"
    /\ ~IsNull(Get(raw_status.raw, "life_cycle_state", Str(<<>>)))
    /\ ~IsNull(Get(raw_status.raw, "result_state", Str(<<>>)))

LifeCycleOf(state) == Lower(Get(state, "life_cycle_state", Str(<<>>)).str)

ResultOf(state) == Lower(Get(state, "result_state", Str(<<>>)).str)

\* C11: a Databricks state resolves on its lifecycle first: a named lifecycle
\* state that is not terminal (pending, running, terminating) maps to running;
\* a terminated lifecycle lets result_state decide success, failed or
\* cancelled, and any other result of a terminated run maps to unknown.
C11_LifecycleFirst ==
    DatabricksMapped =>
        LET life_cycle_state == LifeCycleOf(raw_status.raw)
            result_state == ResultOf(raw_status.raw)
        IN  /\ (life_cycle_state # <<>> /\ life_cycle_state \notin TerminalLifeCycles)
                   => mapped_status = Returned("running")
            /\ life_cycle_state = S_terminated =>
                   mapped_status =
                       Returned(CASE result_state = S_success -> "success"
                                  [] result_state = S_failed -> "failed"
                                  [] result_state = S_canceled -> "cancelled"
                                  [] OTHER -> "unknown")

====
